---- MODULE Spec2Model ----
(***************************************************************************)
(* A model of langrank's ranking core: language canonicalization, the      *)
(* per-source aggregation of raw samples, the C/C++ reconciliation of the  *)
(* PYPL list against TIOBE, and the Schulze engine (ballots, defeat        *)
(* matrix, beatpath widening, final order, records).                       *)
(*                                                                         *)
(* Conventions.                                                            *)
(*  - A Rust String is a sequence of one-character strings; Code gives     *)
(*    each character its byte, so that String::cmp is the lexicographic    *)
(*    order on bytes.                                                      *)
(*  - An f64 is an exact rational <<num, den>> in lowest terms, den > 0:   *)
(*    rounding is abstracted, the algebra is not.                          *)
(*  - Option<T> is a sequence: <<>> is None, <<x>> is Some(x).             *)
(*  - Array2<usize> is a function [0..n-1 -> [0..n-1 -> Nat]] (0-based as  *)
(*    in the source); a Vec is a 1-based sequence.                         *)
(***************************************************************************)
EXTENDS Integers, Sequences, FiniteSets, TLC

VARIABLES
    pc,          \* position of the run
    raw_tiobe,   \* main: the raw samples fetch_tiobe scraped
    raw_pypl,    \* main: the raw samples fetch_pypl scraped
    entries,     \* Vec<RawEntry> handed to aggregate_entries
    result,      \* Vec<RankingEntry> returned by aggregate_entries
    tiobe,       \* main: the aggregated TIOBE list
    pypl,        \* main: the aggregated PYPL list (mutated by adjust_pypl_entries)
    pypl_before, \* the PYPL list as it was before adjust_pypl_entries
    benchmark,   \* main: benchmark_stats, a map language -> f64
    languages,   \* build_preference_matrices: the candidate list
    ballots,     \* build_preference_matrices: the ballots
    d,           \* the defeat matrix returned
    p,           \* the strength matrix returned
    outcome,     \* compute_schulze_records: [ok |-> BOOLEAN, records |-> Seq]
    header,      \* the benchmark table: its header record
    rows,        \* the benchmark table: its data records
    stats,       \* compute_benchmark_stats_sync: [ok |-> BOOLEAN, map |-> medians]
    fetch,       \* main: the state of each of the three fetches of try_join!
    save,        \* main: the CSV files the command line asks for
    files,       \* main: the CSV files written so far
    printed,     \* main: print_summary has run
    error,       \* main: the error the run ended with, if any
    attempt,     \* send_with_retry: the loop variable
    last_err,    \* send_with_retry: last_err
    sent,        \* send_with_retry: what each request issued so far met
    reply,       \* send_with_retry: its result, once it has returned
    waits,       \* send_with_retry: the sleeps taken so far
    label,       \* a raw language label, as a source reports it
    canon_name,  \* canonicalize_language(label)
    bench_name,  \* the name compute_benchmark_stats_sync files label under
    results,     \* techempower: the TechempowerResults parsed from results.json
    scores       \* techempower: the result of compute_language_scores

\* The variables of the ranking core.
core == <<raw_tiobe, raw_pypl, entries, result, tiobe, pypl, pypl_before,
          benchmark, languages, ballots, d, p, outcome>>

\* The variables of the benchmark table, of main and of send_with_retry.
ext == <<header, rows, stats, fetch, save, files, printed, error,
         attempt, last_err, sent, reply>>

\* The variables of the canonicalizers, of the backoff and of techempower.
aux == <<waits, label, canon_name, bench_name, results, scores>>

vars == <<pc, core, ext, aux>>

(***************************************************************************)
(* Bounds of the model.                                                    *)
(***************************************************************************)
MaxSamples == 3
MaxRaw == 2
MaxBallots == 4
MaxShare == 2
MaxElapsed == 2

(***************************************************************************)
(* Generic helpers.                                                        *)
(***************************************************************************)
None == <<>>
Some(x) == <<x>>
IsSome(o) == Len(o) = 1
Unwrap(o) == o[1]

Min2(a, b) == IF a <= b THEN a ELSE b
Max2(a, b) == IF a >= b THEN a ELSE b

SeqsUpTo(S, n) == UNION {[1..k -> S] : k \in 0..n}

\* All the orders in which a hash map or hash set with key set S can iterate.
IterOrders(S) ==
    {o \in [1..Cardinality(S) -> S] : \A i, j \in DOMAIN o : i # j => o[i] # o[j]}

(***************************************************************************)
(* f64 as exact rationals.                                                 *)
(***************************************************************************)
RECURSIVE Gcd(_, _)
Gcd(a, b) == IF b = 0 THEN a ELSE Gcd(b, a % b)

Abs(x) == IF x < 0 THEN -x ELSE x

Rat(n, m) ==
    LET s == IF m < 0 THEN -1 ELSE 1
        g == Gcd(Abs(n), Abs(m))
    IN  <<(s * n) \div g, (s * m) \div g>>

R(n) == <<n, 1>>
RAdd(x, y) == Rat(x[1] * y[2] + y[1] * x[2], x[2] * y[2])
RSub(x, y) == Rat(x[1] * y[2] - y[1] * x[2], x[2] * y[2])
RMul(x, y) == Rat(x[1] * y[1], x[2] * y[2])
RDiv(x, y) == Rat(x[1] * y[2], x[2] * y[1])
RLt(x, y) == x[1] * y[2] < y[1] * x[2]
RLe(x, y) == x[1] * y[2] <= y[1] * x[2]

(***************************************************************************)
(* Strings.                                                                *)
(***************************************************************************)
Code ==
    (" " :> 32) @@ ("+" :> 43) @@ ("/" :> 47) @@
    ("A" :> 65) @@ ("B" :> 66) @@ ("C" :> 67) @@ ("G" :> 71) @@ ("O" :> 79) @@
    ("P" :> 80) @@ ("R" :> 82) @@ ("S" :> 83) @@ ("V" :> 86) @@
    ("a" :> 97) @@ ("b" :> 98) @@ ("c" :> 99) @@ ("d" :> 100) @@ ("f" :> 102) @@
    ("g" :> 103) @@
    ("h" :> 104) @@ ("l" :> 108) @@ ("n" :> 110) @@ ("o" :> 111) @@
    ("p" :> 112) @@ ("r" :> 114) @@ ("s" :> 115) @@ ("t" :> 116) @@
    ("u" :> 117) @@ ("v" :> 118) @@ ("w" :> 119) @@ ("y" :> 121)

Alphabet == DOMAIN Code

is_whitespace(ch) == ch = " "

to_lowercase(ch) ==
    IF Code[ch] >= 65 /\ Code[ch] <= 90
    THEN CHOOSE c \in Alphabet : Code[c] = Code[ch] + 32
    ELSE ch

\* str::trim: the string without its leading and trailing whitespace.
trim(s) ==
    LET keep == {i \in 1..Len(s) : ~is_whitespace(s[i])}
    IN  IF keep = {} THEN <<>>
        ELSE LET lo == CHOOSE i \in keep : \A j \in keep : i <= j
                 hi == CHOOSE i \in keep : \A j \in keep : j <= i
             IN  SubSeq(s, lo, hi)

\* String::cmp as Ordering::Less: lexicographic on bytes, a proper prefix first.
StrLess(a, b) ==
    \E k \in 1..(Min2(Len(a), Len(b)) + 1) :
        /\ \A i \in 1..(k - 1) : a[i] = b[i]
        /\ \/ k = Len(a) + 1 /\ k <= Len(b)
           \/ k <= Len(a) /\ k <= Len(b) /\ Code[a[k]] < Code[b[k]]

\* The elements of a slice.
Elems(s) == {s[i] : i \in 1..Len(s)}

\* <[T]>::sort_by on a short slice: a stable insertion sort. The comparator is
\* given by `less`, the set of the pairs <<x, y>> of elements for which it
\* returns Ordering::Less.
InsertTail(sorted, x, less) ==
    LET stop == {i \in 1..Len(sorted) : <<x, sorted[i]>> \notin less}
        pos  == IF stop = {} THEN 0 ELSE CHOOSE i \in stop : \A j \in stop : j <= i
    IN  SubSeq(sorted, 1, pos) \o <<x>> \o SubSeq(sorted, pos + 1, Len(sorted))

sort_by(s, less) ==
    LET f[i \in 0..Len(s)] ==
            IF i = 0 THEN <<>> ELSE InsertTail(f[i - 1], s[i], less)
    IN  f[Len(s)]

(***************************************************************************)
(* sources.rs: canonicalize_language and its alias table.                  *)
(***************************************************************************)
S_Go      == <<"G", "o">>
S_C       == <<"C">>
S_Cpp     == <<"C", "+", "+">>
S_CCpp    == <<"C", "/", "C", "+", "+">>
S_VBAVBS  == <<"V", "B", "A", "/", "V", "B", "S">>
S_Rust == <<"R", "u", "s", "t">>
S_Python == <<"P", "y", "t", "h", "o", "n">>
S_DelphiPascal == <<"D", "e", "l", "p", "h", "i", "/", "P", "a", "s", "c", "a", "l">>
S_FreePascal == <<"F", "r", "e", "e", " ", "P", "a", "s", "c", "a", "l">>

normalize_alias_key(input) ==
    LET keep == SelectSeq(input, LAMBDA ch : ~is_whitespace(ch))
    IN  [i \in 1..Len(keep) |-> to_lowercase(keep[i])]

\* The rows of CANONICAL_ALIASES that the labels of the model can hit.
canonical_aliases ==
    (<<"c">> :> S_C) @@
    (<<"c", "+", "+">> :> S_Cpp) @@
    (<<"c", "/", "c", "+", "+">> :> S_CCpp) @@
    (<<"c", "p", "p">> :> S_Cpp) @@
    (<<"f", "p", "a", "s", "c", "a", "l">> :> S_DelphiPascal) @@
    (<<"g", "c", "c">> :> S_CCpp) @@
    (<<"g", "o">> :> S_Go) @@
    (<<"g", "o", "l", "a", "n", "g">> :> S_Go) @@
    (<<"g", "p", "p">> :> S_CCpp) @@
    (<<"p", "y", "t", "h", "o", "n">> :> S_Python) @@
    (<<"r", "u", "s", "t">> :> S_Rust) @@
    (<<"v", "b", "a">> :> S_VBAVBS) @@
    (<<"v", "w">> :> <<>>)

canonicalize_language(input) ==
    LET trimmed == trim(input)
        lookup_key == normalize_alias_key(trimmed)
    IN  IF trimmed = <<>> THEN None
        ELSE IF lookup_key \in DOMAIN canonical_aliases
             THEN IF canonical_aliases[lookup_key] = <<>> THEN None
                  ELSE Some(canonical_aliases[lookup_key])
             ELSE Some(trimmed)

(***************************************************************************)
(* main.rs: the older aggregate_entries canonicalizes with an exact lookup *)
(* of the trimmed label in language_aliases.                               *)
(***************************************************************************)
language_aliases ==
    (<<"V", "B", "A">> :> S_VBAVBS)

main_normalized(lang) ==
    LET trimmed == trim(lang)
        normalized == IF trimmed \in DOMAIN language_aliases
                      THEN language_aliases[trimmed] ELSE trimmed
    IN  IF normalized = <<>> THEN None ELSE Some(normalized)

(***************************************************************************)
(* aggregate_entries.                                                      *)
(***************************************************************************)
RawEntry(lang, rank, share, trend) ==
    [lang |-> lang, rank |-> rank, share |-> share, trend |-> trend]

RankingEntry(lang, rank, share, trend) ==
    [lang |-> lang, rank |-> rank, share |-> share, trend |-> trend]

AggregatedEntryDefault ==
    [min_rank |-> None, share_sum |-> R(0), trend_sum |-> R(0), trend_seen |-> FALSE]

\* A faulty loop body: the largest rank wins instead of the smallest.
AggStep_MaxRank(aggregated, key, entry) ==
    LET agg == IF key \in DOMAIN aggregated THEN aggregated[key]
               ELSE [min_rank |-> None, share_sum |-> R(0), trend_sum |-> R(0),
                     trend_seen |-> FALSE]
        new == [min_rank   |-> IF IsSome(entry.rank)
                               THEN IF IsSome(agg.min_rank)
                                    THEN Some(Max2(Unwrap(agg.min_rank), Unwrap(entry.rank)))
                                    ELSE Some(Unwrap(entry.rank))
                               ELSE agg.min_rank,
                share_sum  |-> RAdd(agg.share_sum, entry.share),
                trend_sum  |-> IF IsSome(entry.trend)
                               THEN RAdd(agg.trend_sum, Unwrap(entry.trend))
                               ELSE agg.trend_sum,
                trend_seen |-> agg.trend_seen \/ IsSome(entry.trend)]
    IN  [k \in DOMAIN aggregated \cup {key} |-> IF k = key THEN new ELSE aggregated[k]]

\* The body of the for loop for one entry already canonicalized to `key`.
AggStep(aggregated, key, entry) ==
    LET agg == IF key \in DOMAIN aggregated THEN aggregated[key]
               ELSE AggregatedEntryDefault
        new == [min_rank   |-> IF IsSome(entry.rank)
                               THEN IF IsSome(agg.min_rank)
                                    THEN Some(Min2(Unwrap(agg.min_rank), Unwrap(entry.rank)))
                                    ELSE Some(Unwrap(entry.rank))
                               ELSE agg.min_rank,
                share_sum  |-> RAdd(agg.share_sum, entry.share),
                trend_sum  |-> IF IsSome(entry.trend)
                               THEN RAdd(agg.trend_sum, Unwrap(entry.trend))
                               ELSE agg.trend_sum,
                trend_seen |-> agg.trend_seen \/ IsSome(entry.trend)]
    IN  [k \in DOMAIN aggregated \cup {key} |-> IF k = key THEN new ELSE aggregated[k]]

\* The for loop: the map after all entries, keys[i] being the canonical name
\* of entry i, or None for an entry the loop skips.
AggFold(es, keys) ==
    LET f[i \in 0..Len(es)] ==
            IF i = 0 THEN <<>>
            ELSE IF IsSome(keys[i])
                 THEN AggStep(f[i - 1], Unwrap(keys[i]), es[i])
                 ELSE f[i - 1]
    IN  f[Len(es)]

\* The canonical names of the entries: sources.rs line 115, main.rs lines 551-555.
canonical_keys(es) == [i \in 1..Len(es) |-> canonicalize_language(es[i].lang)]
main_keys(es) == [i \in 1..Len(es) |-> main_normalized(es[i].lang)]

\* into_iter().map(..).collect() in the iteration order `order`, then sort_by.
AggCollect(aggregated, order) ==
    [i \in 1..Len(order) |->
        LET agg == aggregated[order[i]]
        IN  RankingEntry(order[i], agg.min_rank, agg.share_sum,
                         IF agg.trend_seen THEN Some(agg.trend_sum) ELSE None)]

LangBefore(a, b) == StrLess(a.lang, b.lang)

\* |a, b| a.lang.cmp(&b.lang) on the entries of a list.
by_lang(list) == {xy \in Elems(list) \X Elems(list) : LangBefore(xy[1], xy[2])}

\* list.sort_by(|a, b| a.lang.cmp(&b.lang)).
sort_by_lang(list) == sort_by(list, by_lang(list))

\* String::cmp on the names of a list.
by_name(names) == {ab \in Elems(names) \X Elems(names) : StrLess(ab[1], ab[2])}

\* A faulty aggregate_entries: the final sort_by is missing.
aggregate_entries_unsorted(es, order) ==
    AggCollect(AggFold(es, canonical_keys(es)), order)

aggregate_entries(es, order) ==
    sort_by_lang(AggCollect(AggFold(es, canonical_keys(es)), order))

main_aggregate_entries(es, order) ==
    sort_by_lang(AggCollect(AggFold(es, main_keys(es)), order))

(***************************************************************************)
(* SpecAgg: aggregate_entries applied to every bounded list of raw         *)
(* samples. The labels cover an alias pair, a label with leading            *)
(* whitespace, a dropped alias, a blank label and an unknown label.        *)
(***************************************************************************)
AggLabels ==
    { <<"G", "o">>,
      <<" ", "g", "o", "l", "a", "n", "g">>,
      <<"v", "w">>,
      <<" ">>,
      <<"V", "B", "A">>,
      S_VBAVBS }

\* (rank, share, trend) of a raw sample.
AggValues ==
    { <<Some(1), R(10), None>>,
      <<Some(5), R(2), Some(Rat(1, 10))>> }

\* Samples without a rank and with a negative trend.
AggUnranked ==
    {RawEntry(l, None, R(3), Some(Rat(-1, 2))) : l \in {<<"G", "o">>, <<"V", "B", "A">>}}

AggSamples ==
    {RawEntry(l, v[1], v[2], v[3]) : l \in AggLabels, v \in AggValues} \cup AggUnranked

NoMatrix == <<>>
NoOutcome == [ok |-> FALSE, records |-> <<>>]
NoStats == [ok |-> FALSE, map |-> <<>>]

\* The variables of `ext` before anything has used them.
ExtIdle ==
    /\ header = <<>>
    /\ rows = <<>>
    /\ stats = NoStats
    /\ fetch = <<>>
    /\ save = {}
    /\ files = {}
    /\ printed = FALSE
    /\ error = None
    /\ attempt = 0
    /\ last_err = None
    /\ sent = <<>>
    /\ reply = None

\* The variables of `aux` before anything has used them.
AuxIdle ==
    /\ waits = <<>>
    /\ label = <<>>
    /\ canon_name = None
    /\ bench_name = None
    /\ results = <<>>
    /\ scores = <<>>

InitAgg ==
    /\ pc = "start"
    /\ raw_tiobe = <<>>
    /\ raw_pypl = <<>>
    /\ entries \in SeqsUpTo(AggSamples, MaxSamples)
    /\ result = <<>>
    /\ tiobe = <<>>
    /\ pypl = <<>>
    /\ pypl_before = <<>>
    /\ benchmark = <<>>
    /\ languages = <<>>
    /\ ballots = <<>>
    /\ d = NoMatrix
    /\ p = NoMatrix
    /\ outcome = NoOutcome
    /\ ExtIdle
    /\ AuxIdle

\* sources.rs aggregate_entries, for every iteration order of the hash map.
Aggregate ==
    /\ pc = "start"
    /\ \E order \in IterOrders(DOMAIN AggFold(entries, canonical_keys(entries))) :
           result' = aggregate_entries(entries, order)
    /\ pc' = "aggregated"
    /\ UNCHANGED <<raw_tiobe, raw_pypl, entries, tiobe, pypl, pypl_before, benchmark, languages,
                   ballots, d, p, outcome>>
    /\ UNCHANGED ext
    /\ UNCHANGED aux

\* main.rs aggregate_entries, for every iteration order of the hash map.
AggregateMain ==
    /\ pc = "start"
    /\ \E order \in IterOrders(DOMAIN AggFold(entries, main_keys(entries))) :
           result' = main_aggregate_entries(entries, order)
    /\ pc' = "aggregated_main"
    /\ UNCHANGED <<raw_tiobe, raw_pypl, entries, tiobe, pypl, pypl_before, benchmark, languages,
                   ballots, d, p, outcome>>
    /\ UNCHANGED ext
    /\ UNCHANGED aux

NextAgg == Aggregate \/ AggregateMain

SpecAgg == InitAgg /\ [][NextAgg]_vars

(***************************************************************************)
(* Claims on aggregate_entries.                                            *)
(***************************************************************************)
\* The canonicalizer the result in `result` was computed with.
CanonOf(lang) ==
    IF pc = "aggregated" THEN canonicalize_language(lang) ELSE main_normalized(lang)

\* The indices of the samples canonicalizing to `name`.
Contributors(name) ==
    {i \in 1..Len(entries) : CanonOf(entries[i].lang) = Some(name)}

\* The exact sums of the shares and of the trends of the samples with index in I.
RECURSIVE SumShares(_)
SumShares(I) ==
    IF I = {} THEN R(0)
    ELSE LET i == CHOOSE x \in I : TRUE
         IN  RAdd(entries[i].share, SumShares(I \ {i}))

RECURSIVE SumTrends(_)
SumTrends(I) ==
    IF I = {} THEN R(0)
    ELSE LET i == CHOOSE x \in I : TRUE
         IN  RAdd(Unwrap(entries[i].trend), SumTrends(I \ {i}))

Aggregated == pc \in {"aggregated", "aggregated_main"}

\* C1: every canonical name of the input has exactly one entry in the result;
\* its share is the sum of the contributing shares, its rank the minimum of the
\* contributing ranks (None if no contributor has one), its trend the sum of the
\* contributing trends if some contributor has one, else None.
C1_AggregateFolds ==
    Aggregated =>
        /\ \A i \in 1..Len(entries) :
               IsSome(CanonOf(entries[i].lang)) =>
                   \E k \in 1..Len(result) : result[k].lang = Unwrap(CanonOf(entries[i].lang))
        /\ \A k \in 1..Len(result) :
               LET I  == Contributors(result[k].lang)
                   Rk == {Unwrap(entries[i].rank) : i \in {j \in I : IsSome(entries[j].rank)}}
                   Tr == {i \in I : IsSome(entries[i].trend)}
               IN  /\ I # {}
                   /\ result[k].share = SumShares(I)
                   /\ result[k].rank =
                          IF Rk = {} THEN None
                          ELSE Some(CHOOSE r \in Rk : \A q \in Rk : r <= q)
                   /\ result[k].trend =
                          IF Tr = {} THEN None ELSE Some(SumTrends(Tr))

\* The spec's example: {"Go",1,10.0,None} and {"golang",5,2.0,Some(0.1)} give
\* {"Go", rank 1, share 12.0, trend Some(0.1)}.
C1_Witness ==
    /\ pc = "aggregated"
    /\ Len(entries) = 2
    /\ entries[1] = RawEntry(<<"G", "o">>, Some(1), R(10), None)
    /\ entries[2] = RawEntry(<<" ", "g", "o", "l", "a", "n", "g">>, Some(5), R(2),
                             Some(Rat(1, 10)))
    /\ result = <<RankingEntry(S_Go, Some(1), R(12), Some(Rat(1, 10)))>>

\* C2: the result is sorted by canonical name strictly ascending (hence no name
\* twice) and holds no entry for a sample whose label canonicalizes to nothing:
\* every entry's name is the canonical name of some sample, and never empty.
C2_SortedUniqueNoDropped ==
    pc = "aggregated" =>
        /\ \A k \in 1..(Len(result) - 1) : StrLess(result[k].lang, result[k + 1].lang)
        /\ \A k \in 1..Len(result) :
               /\ result[k].lang # <<>>
               /\ \E i \in 1..Len(entries) :
                      canonicalize_language(entries[i].lang) = Some(result[k].lang)
        /\ Len(result) =
               Cardinality({canonicalize_language(entries[i].lang) : i \in 1..Len(entries)}
                           \ {None})

\* Three samples, one dropped by the alias "vw" -> "", two kept under two names
\* that arrive in descending order.
C2_Witness ==
    /\ pc = "aggregated"
    /\ Len(entries) = 3
    /\ entries[1].lang = S_VBAVBS
    /\ entries[2].lang = <<"v", "w">>
    /\ entries[3].lang = <<"G", "o">>
    /\ Len(result) = 2
    /\ result[1].lang = S_Go
    /\ result[2].lang = S_VBAVBS

(***************************************************************************)
(* main.rs: adjust_pypl_entries.                                           *)
(***************************************************************************)
\* iter().position(|entry| entry.lang == name): the first index, or 0 if none.
position(list, name) ==
    LET hits == {i \in 1..Len(list) : list[i].lang = name}
    IN  IF hits = {} THEN 0 ELSE CHOOSE i \in hits : \A j \in hits : i <= j

remove(list, i) == SubSeq(list, 1, i - 1) \o SubSeq(list, i + 1, Len(list))

\* share_sum <= f64::EPSILON. EPSILON is 2^-52 and every positive rational of
\* the model has a denominator far below 2^52, so it exceeds EPSILON.
LeEpsilon(x) == x[1] <= 0

\* The entry pushed for `lang` with weight `ratio`.
splitted(combined, lang, ratio) ==
    RankingEntry(lang, combined.rank, RMul(combined.share, ratio),
                 IF IsSome(combined.trend)
                 THEN Some(RMul(Unwrap(combined.trend), ratio)) ELSE None)

\* A faulty split: the two ratios are attached to the wrong languages.
adjust_split_swapped(c_data, cpp_data, rest, combined) ==
    LET share_sum == RAdd(c_data.share, cpp_data.share)
        cpp_ratio == RDiv(cpp_data.share, share_sum)
        c_ratio   == RSub(R(1), cpp_ratio)
    IN  sort_by_lang(rest \o <<splitted(combined, S_Cpp, c_ratio),
                               splitted(combined, S_C, cpp_ratio)>>)

\* Lines 607-623: the two split entries are pushed, C++ first, and the list is
\* sorted again.
adjust_split(c_data, cpp_data, rest, combined) ==
    LET share_sum == RAdd(c_data.share, cpp_data.share)
        cpp_ratio == RDiv(cpp_data.share, share_sum)
        c_ratio   == RSub(R(1), cpp_ratio)
    IN  sort_by_lang(rest \o <<splitted(combined, S_Cpp, cpp_ratio),
                               splitted(combined, S_C, c_ratio)>>)

\* adjust_pypl_entries that pushes the combined entry back without sorting.
adjust_pypl_entries_unsorted(tiobe_list, pypl_list) ==
    LET c_pos   == position(tiobe_list, S_C)
        cpp_pos == position(tiobe_list, S_Cpp)
        pos     == position(pypl_list, S_CCpp)
    IN  IF c_pos = 0 \/ cpp_pos = 0 \/ pos = 0 THEN pypl_list
        ELSE LET combined == pypl_list[pos]
                 rest     == remove(pypl_list, pos)
                 c_data   == tiobe_list[c_pos]
                 cpp_data == tiobe_list[cpp_pos]
             IN  IF LeEpsilon(RAdd(c_data.share, cpp_data.share))
                 THEN rest \o <<combined>>
                 ELSE adjust_split(c_data, cpp_data, rest, combined)

\* The value of *pypl when adjust_pypl_entries(tiobe, pypl) returns.
adjust_pypl_entries(tiobe_list, pypl_list) ==
    LET c_pos   == position(tiobe_list, S_C)
        cpp_pos == position(tiobe_list, S_Cpp)
        pos     == position(pypl_list, S_CCpp)
    IN  IF c_pos = 0 \/ cpp_pos = 0 \/ pos = 0 THEN pypl_list
        ELSE LET combined == pypl_list[pos]
                 rest     == remove(pypl_list, pos)
                 c_data   == tiobe_list[c_pos]
                 cpp_data == tiobe_list[cpp_pos]
             IN  IF LeEpsilon(RAdd(c_data.share, cpp_data.share))
                 THEN sort_by_lang(rest \o <<combined>>)
                 ELSE adjust_split(c_data, cpp_data, rest, combined)

(***************************************************************************)
(* SpecAdjust: main.rs up to the reconciliation. fetch_tiobe and           *)
(* fetch_pypl aggregate what they scraped with main.rs's                   *)
(* aggregate_entries; adjust_pypl_entries then rewrites the PYPL list.     *)
(***************************************************************************)
TiobeSamples ==
    { RawEntry(S_C, Some(2), R(5), None),
      RawEntry(S_C, Some(2), R(0), None),
      RawEntry(S_Cpp, Some(3), R(15), None),
      RawEntry(S_Cpp, Some(3), R(0), None),
      RawEntry(S_Go, Some(7), R(2), None) }

PyplSamples ==
    { RawEntry(S_CCpp, Some(4), R(20), Some(R(2))),
      RawEntry(S_CCpp, Some(4), R(7), None),
      RawEntry(S_C, Some(6), R(3), None),
      RawEntry(S_Cpp, Some(5), R(4), Some(R(-1))),
      RawEntry(S_Go, Some(9), R(1), None) }

InitAdjust ==
    /\ pc = "start"
    /\ raw_tiobe \in SeqsUpTo(TiobeSamples, MaxRaw)
    /\ raw_pypl \in SeqsUpTo(PyplSamples, MaxRaw)
    /\ entries = <<>>
    /\ result = <<>>
    /\ tiobe = <<>>
    /\ pypl = <<>>
    /\ pypl_before = <<>>
    /\ benchmark = <<>>
    /\ languages = <<>>
    /\ ballots = <<>>
    /\ d = NoMatrix
    /\ p = NoMatrix
    /\ outcome = NoOutcome
    /\ ExtIdle
    /\ AuxIdle

\* main.rs 75-79: both rankings fetched and aggregated.
FetchRankings ==
    /\ pc = "start"
    /\ \E ot \in IterOrders(DOMAIN AggFold(raw_tiobe, main_keys(raw_tiobe))),
          op \in IterOrders(DOMAIN AggFold(raw_pypl, main_keys(raw_pypl))) :
           /\ tiobe' = main_aggregate_entries(raw_tiobe, ot)
           /\ pypl' = main_aggregate_entries(raw_pypl, op)
    /\ pc' = "fetched"
    /\ UNCHANGED <<raw_tiobe, raw_pypl, entries, result, pypl_before, benchmark,
                   languages, ballots, d, p, outcome>>
    /\ UNCHANGED ext
    /\ UNCHANGED aux

\* main.rs 82: adjust_pypl_entries(&tiobe, &mut pypl).
AdjustPypl ==
    /\ pc = "fetched"
    /\ pypl_before' = pypl
    /\ pypl' = adjust_pypl_entries(tiobe, pypl)
    /\ pc' = "adjusted"
    /\ UNCHANGED <<raw_tiobe, raw_pypl, entries, result, tiobe, benchmark,
                   languages, ballots, d, p, outcome>>
    /\ UNCHANGED ext
    /\ UNCHANGED aux

NextAdjust == FetchRankings \/ AdjustPypl

SpecAdjust == InitAdjust /\ [][NextAdjust]_vars

(***************************************************************************)
(* Claims on adjust_pypl_entries.                                          *)
(***************************************************************************)
HasLang(list, name) == \E i \in 1..Len(list) : list[i].lang = name
EntryOf(list, name) == list[position(list, name)]

\* The case C3 is about: TIOBE has C and C++ with a sum of shares that is not
\* numerically zero, and PYPL had a combined entry.
SplitCase ==
    /\ pc = "adjusted"
    /\ HasLang(tiobe, S_C) /\ HasLang(tiobe, S_Cpp) /\ HasLang(pypl_before, S_CCpp)
    /\ ~LeEpsilon(RAdd(EntryOf(tiobe, S_C).share, EntryOf(tiobe, S_Cpp).share))

\* C3: in the split case the combined entry is gone and the list holds an entry C
\* with share S*sx/(sx+sy) and an entry C++ with share S*sy/(sx+sy), the trend
\* scaled by the same ratios when present; the two shares add up to S and stand
\* in the ratio sx : sy. The other entries are kept.
C3_SplitByTiobeRatio ==
    SplitCase =>
        LET sx  == EntryOf(tiobe, S_C).share
            sy  == EntryOf(tiobe, S_Cpp).share
            cmb == EntryOf(pypl_before, S_CCpp)
            S   == cmb.share
            eC  == RankingEntry(S_C, cmb.rank, RDiv(RMul(S, sx), RAdd(sx, sy)),
                       IF IsSome(cmb.trend)
                       THEN Some(RDiv(RMul(Unwrap(cmb.trend), sx), RAdd(sx, sy)))
                       ELSE None)
            eCpp == RankingEntry(S_Cpp, cmb.rank, RDiv(RMul(S, sy), RAdd(sx, sy)),
                       IF IsSome(cmb.trend)
                       THEN Some(RDiv(RMul(Unwrap(cmb.trend), sy), RAdd(sx, sy)))
                       ELSE None)
        IN  /\ ~HasLang(pypl, S_CCpp)
            /\ \E i \in 1..Len(pypl) : pypl[i] = eC
            /\ \E i \in 1..Len(pypl) : pypl[i] = eCpp
            /\ RAdd(eC.share, eCpp.share) = S
            /\ RMul(eC.share, sy) = RMul(eCpp.share, sx)
            /\ Len(pypl) = Len(pypl_before) + 1
            /\ \A i \in 1..Len(pypl_before) :
                   pypl_before[i].lang # S_CCpp => \E j \in 1..Len(pypl) : pypl[j] = pypl_before[i]

\* The spec's example: TIOBE C = 5, C++ = 15, PYPL C/C++ = 20 gives C = 5 and
\* C++ = 15.
C3_Witness ==
    /\ SplitCase
    /\ EntryOf(tiobe, S_C).share = R(5)
    /\ EntryOf(tiobe, S_Cpp).share = R(15)
    /\ EntryOf(pypl_before, S_CCpp).share = R(20)
    /\ EntryOf(pypl_before, S_CCpp).trend = Some(R(2))
    /\ pypl = <<RankingEntry(S_C, Some(4), R(5), Some(Rat(1, 2))),
                RankingEntry(S_Cpp, Some(4), R(15), Some(Rat(3, 2)))>>

\* C4: after adjust_pypl_entries the PYPL list is sorted by name strictly
\* ascending, that is it holds one entry per language name.
C4_OnePerLanguageSorted ==
    pc = "adjusted" =>
        \A k \in 1..(Len(pypl) - 1) : StrLess(pypl[k].lang, pypl[k + 1].lang)

\* The cases without a split, on the lists adjust_pypl_entries is given.
NoSplit(tiobe_list, pypl_list) ==
    \/ ~HasLang(tiobe_list, S_C)
    \/ ~HasLang(tiobe_list, S_Cpp)
    \/ ~HasLang(pypl_list, S_CCpp)
    \/ LeEpsilon(RAdd(EntryOf(tiobe_list, S_C).share, EntryOf(tiobe_list, S_Cpp).share))

\* C25: adjust_pypl_entries never changes the TIOBE list, and it leaves the
\* PYPL list as it was (same entries, same values, same order, the combined
\* entry included) when TIOBE lacks C or C++, PYPL lacks C/C++, or the TIOBE
\* shares of C and C++ add up to zero.
C25_NoSplitLeavesPyplUnchanged ==
    [][pc = "fetched" =>
          /\ tiobe' = tiobe
          /\ NoSplit(tiobe, pypl) => pypl' = pypl]_vars

\* The zero-sum case with a combined entry that is not the last of the list:
\* it was removed, pushed at the end and sorted back to its place.
C25_Witness ==
    /\ pc = "adjusted"
    /\ HasLang(tiobe, S_C) /\ HasLang(tiobe, S_Cpp) /\ HasLang(pypl_before, S_CCpp)
    /\ LeEpsilon(RAdd(EntryOf(tiobe, S_C).share, EntryOf(tiobe, S_Cpp).share))
    /\ position(pypl_before, S_CCpp) < Len(pypl_before)
    /\ pypl = pypl_before

(***************************************************************************)
(* main.rs: build_preference_matrices.                                     *)
(***************************************************************************)
\* index_map.get(lang): the 0-based index of lang in the list (the last one
\* inserted wins in the hash map), None if lang is no candidate.
index_of(langs, lang) ==
    LET hits == {i \in 1..Len(langs) : langs[i] = lang}
    IN  IF hits = {} THEN None
        ELSE Some((CHOOSE i \in hits : \A j \in hits : j <= i) - 1)

\* Lines 863-868: positions[idx] for one ballot, 0 where the ballot never
\* names the candidate.
positions(langs, ballot) ==
    [idx \in 0..(Len(langs) - 1) |->
        LET hits == {pos \in 1..Len(ballot) : index_of(langs, ballot[pos]) = Some(idx)}
        IN  IF hits = {} THEN 0
            ELSE (CHOOSE pos \in hits : \A q \in hits : q <= pos) - 1]

\* A faulty count: the comparison of the two positions is turned round.
defeat_matrix_reversed(langs, bs) ==
    [i \in 0..(Len(langs) - 1) |-> [j \in 0..(Len(langs) - 1) |->
        Cardinality({b \in 1..Len(bs) :
            i # j /\ positions(langs, bs[b])[i] > positions(langs, bs[b])[j]})]]

\* Lines 861-876: d.
defeat_matrix(langs, bs) ==
    [i \in 0..(Len(langs) - 1) |-> [j \in 0..(Len(langs) - 1) |->
        Cardinality({b \in 1..Len(bs) :
            i # j /\ positions(langs, bs[b])[i] < positions(langs, bs[b])[j]})]]

\* A faulty initial matrix: a tie of d counts as a defeat in both directions.
initial_strength_ties(dm) ==
    [i \in DOMAIN dm |-> [j \in DOMAIN dm |->
        IF i # j /\ dm[i][j] >= dm[j][i] THEN dm[i][j] ELSE 0]]

\* Lines 878-888: p before the widening.
initial_strength(dm) ==
    [i \in DOMAIN dm |-> [j \in DOMAIN dm |->
        IF i # j /\ dm[i][j] > dm[j][i] THEN dm[i][j] ELSE 0]]

\* A faulty relaxation: the innermost index k is the intermediate candidate.
relax_innermost(pm, i, j, k) ==
    LET candidate == Min2(pm[i][k], pm[k][j])
    IN  IF candidate > pm[i][j]
        THEN [pm EXCEPT ![i] = [@ EXCEPT ![j] = candidate]]
        ELSE pm

\* Lines 899-902: one relaxation of p[j][k] through i.
relax(pm, i, j, k) ==
    LET candidate == Min2(pm[j][i], pm[i][k])
    IN  IF candidate > pm[j][k]
        THEN [pm EXCEPT ![j] = [@ EXCEPT ![k] = candidate]]
        ELSE pm

\* Lines 895-903: the loop over k for fixed i and j.
widen_k(pm, i, j) ==
    LET n == Cardinality(DOMAIN pm)
        f[k \in 0..n] ==
            IF k = 0 THEN pm
            ELSE IF i = k - 1 \/ j = k - 1 THEN f[k - 1]
                 ELSE relax(f[k - 1], i, j, k - 1)
    IN  f[n]

\* Lines 891-904: the loop over j for fixed i.
widen_j(pm, i) ==
    LET n == Cardinality(DOMAIN pm)
        f[j \in 0..n] ==
            IF j = 0 THEN pm
            ELSE IF i = j - 1 THEN f[j - 1]
                 ELSE widen_k(f[j - 1], i, j - 1)
    IN  f[n]

\* The widening after the first `passes` rounds of the outer loop.
widen_upto(pm, passes) ==
    LET f[i \in 0..passes] == IF i = 0 THEN pm ELSE widen_j(f[i - 1], i - 1)
    IN  f[passes]

\* A faulty widening: the outer loop stops one candidate short.
widen_short(pm) == widen_upto(pm, Cardinality(DOMAIN pm) - 1)

\* Lines 890-905: the single in-place pass, i outermost, then j, then k.
widen(pm) == widen_upto(pm, Cardinality(DOMAIN pm))

\* build_preference_matrices without the widening.
build_preference_matrices_unwidened(langs, bs) ==
    LET dm == defeat_matrix(langs, bs)
    IN  [d |-> dm, p |-> initial_strength(dm)]

\* Lines 850-908.
build_preference_matrices(langs, bs) ==
    LET dm == defeat_matrix(langs, bs)
    IN  [d |-> dm, p |-> widen(initial_strength(dm))]

(***************************************************************************)
(* SpecMatrices: build_preference_matrices applied to lists of ballots,    *)
(* each a permutation of the candidate list: up to MaxBallots ballots over *)
(* three candidates, the NumBallots ballots compute_schulze_records builds *)
(* over four candidates, and over five candidates with the first ballot in *)
(* name order.                                                             *)
(***************************************************************************)
NumBallots == 3

S_A == <<"A">>
S_B == <<"B">>
S_D == <<"d">>

Permutations3 == IterOrders({S_A, S_B, S_C})
Permutations4 == IterOrders({S_A, S_B, S_C, S_D})

\* Five candidates in name order, and their ballots.
Five == <<S_A, S_B, S_C, S_Go, S_D>>
Permutations5 == IterOrders(Elems(Five))

InitMatrices ==
    /\ pc = "start"
    /\ \/ /\ languages = <<S_A, S_B, S_C>>
          /\ ballots \in SeqsUpTo(Permutations3, MaxBallots)
       \/ /\ languages = <<S_A, S_B, S_C, S_D>>
          /\ ballots \in [1..NumBallots -> Permutations4]
       \/ /\ languages = Five
          /\ ballots \in {<<Five>> \o rest : rest \in [1..(NumBallots - 1) -> Permutations5]}
    /\ raw_tiobe = <<>>
    /\ raw_pypl = <<>>
    /\ entries = <<>>
    /\ result = <<>>
    /\ tiobe = <<>>
    /\ pypl = <<>>
    /\ pypl_before = <<>>
    /\ benchmark = <<>>
    /\ d = NoMatrix
    /\ p = NoMatrix
    /\ outcome = NoOutcome
    /\ ExtIdle
    /\ AuxIdle

BuildMatrices ==
    /\ pc = "start"
    /\ LET m == build_preference_matrices(languages, ballots)
       IN  d' = m.d /\ p' = m.p
    /\ pc' = "built"
    /\ UNCHANGED <<raw_tiobe, raw_pypl, entries, result, tiobe, pypl, pypl_before,
                   benchmark, languages, ballots, outcome>>
    /\ UNCHANGED ext
    /\ UNCHANGED aux

NextMatrices == BuildMatrices

SpecMatrices == InitMatrices /\ [][NextMatrices]_vars

(***************************************************************************)
(* Claims on build_preference_matrices.                                    *)
(***************************************************************************)
Cand == 0..(Len(languages) - 1)

\* "candidate i stands before candidate j in ballot b".
Precedes(b, i, j) ==
    \E x, y \in 1..Len(ballots[b]) :
        x < y /\ ballots[b][x] = languages[i + 1] /\ ballots[b][y] = languages[j + 1]

\* C5: d[i][j], for i # j, is the number of ballots in which i stands before j.
C5_DefeatCounts ==
    pc = "built" =>
        \A i, j \in Cand :
            i # j => d[i][j] = Cardinality({b \in 1..Len(ballots) : Precedes(b, i, j)})

\* The worked scenario: ballots [A,B,C], [B,C,A], [A,C,B], [C,A,B] give
\* d[A,B] = 3, d[B,A] = 1 and 2 for the four other pairs.
C5_Witness ==
    /\ pc = "built"
    /\ languages = <<S_A, S_B, S_C>>
    /\ ballots = << <<S_A, S_B, S_C>>, <<S_B, S_C, S_A>>, <<S_A, S_C, S_B>>,
                    <<S_C, S_A, S_B>> >>
    /\ d[0][1] = 3 /\ d[1][0] = 1
    /\ d[0][2] = 2 /\ d[2][0] = 2 /\ d[1][2] = 2 /\ d[2][1] = 2

\* C6 as claimed: in the returned p the diagonal is 0 and no pair has both
\* strengths positive.
C6_NoMutualStrength ==
    pc = "built" =>
        /\ \A i \in Cand : p[i][i] = 0
        /\ \A i, j \in Cand : i # j => ~(p[i][j] > 0 /\ p[j][i] > 0)

\* C6 amended: the diagonal of the returned p is 0, and no pair has both
\* strengths positive in the initial matrix, before the widening.
C6_DiagonalZeroInitialOneSided ==
    pc = "built" =>
        /\ \A i \in Cand : p[i][i] = 0
        /\ \A i, j \in Cand :
               i # j => ~(initial_strength(d)[i][j] > 0 /\ initial_strength(d)[j][i] > 0)

\* A cycle of defeats A > B > C > A: the widening makes every strength 2.
C6_Witness ==
    /\ pc = "built"
    /\ ballots = << <<S_A, S_B, S_C>>, <<S_B, S_C, S_A>>, <<S_C, S_A, S_B>> >>
    /\ initial_strength(d)[0][1] = 2 /\ initial_strength(d)[1][0] = 0
    /\ p[0][1] = 2 /\ p[1][0] = 2
    /\ p[0][0] = 0

\* C7: the returned p satisfies p[j][k] >= min(p[j][i], p[i][k]) for all
\* pairwise distinct i, j, k.
C7_Triangle ==
    pc = "built" =>
        \A i, j, k \in Cand :
            (i # j /\ i # k /\ j # k) => p[j][k] >= Min2(p[j][i], p[i][k])

\* A strength that only the widening produces, over four candidates.
C7_Witness ==
    /\ pc = "built"
    /\ Len(languages) = 4
    /\ \E i, j, k \in Cand :
           /\ i # j /\ i # k /\ j # k
           /\ initial_strength(d)[j][k] < Min2(initial_strength(d)[j][i], initial_strength(d)[i][k])
           /\ p[j][k] >= Min2(p[j][i], p[i][k])
           /\ p[j][k] > 0

\* The paths from i to j through distinct candidates.
Paths(i, j) ==
    {<<i>> \o via \o <<j>> :
        via \in UNION {IterOrders(S) : S \in SUBSET (Cand \ {i, j})}}

\* The weakest initial strength along a path.
PathStrength(path) ==
    LET links == {initial_strength(d)[path[x]][path[x + 1]] : x \in 1..(Len(path) - 1)}
    IN  CHOOSE m \in links : \A l \in links : m <= l

\* The strength of the strongest path from i to j.
StrongestPath(i, j) ==
    LET strengths == {PathStrength(path) : path \in Paths(i, j)}
    IN  CHOOSE m \in strengths : \A l \in strengths : l <= m

\* C21: after the single widening pass, p[i][j] for i # j is the strength of
\* the strongest path from i to j, the largest over the paths through
\* distinct candidates of the smallest initial strength along the path; a
\* second widening pass changes no entry.
C21_StrongestPaths ==
    pc = "built" =>
        /\ \A i, j \in Cand : i # j => p[i][j] = StrongestPath(i, j)
        /\ widen(p) = p

\* Over four candidates a strength comes from a path through two others
\* only.
C21_Witness ==
    /\ pc = "built"
    /\ Len(languages) = 4
    /\ \E i, j \in Cand :
           /\ i # j
           /\ p[i][j] > 0
           /\ \A path \in Paths(i, j) : Len(path) < 4 => PathStrength(path) < p[i][j]

\* C22: the strict beatpath relation of the returned p is transitive: for
\* pairwise distinct a, b, c, p[a][b] > p[b][a] and p[b][c] > p[c][b] give
\* p[a][c] > p[c][a].
C22_BeatpathTransitive ==
    pc = "built" =>
        \A a, b, c \in Cand :
            (a # b /\ b # c /\ a # c /\ p[a][b] > p[b][a] /\ p[b][c] > p[c][b])
                => p[a][c] > p[c][a]

\* a beats b and b beats c by beatpath, and a beats c although a path leads
\* back from c to a.
C22_Witness ==
    /\ pc = "built"
    /\ Len(ballots) = NumBallots
    /\ \E a, b, c \in Cand :
           /\ a # b /\ b # c /\ a # c
           /\ p[a][b] > p[b][a]
           /\ p[b][c] > p[c][b]
           /\ p[c][a] > 0
           /\ p[a][c] > p[c][a]

(***************************************************************************)
(* main.rs: compute_schulze_records and its comparators.                   *)
(***************************************************************************)
\* f64::INFINITY: the cross-multiplied comparisons of RLt and RLe place it
\* above every finite value.
INFINITY == <<1, 0>>
is_finite(x) == x[2] # 0

\* A lookup in the HashMap<&str, usize> built from a list by collect(): the
\* 0-based index of the name, the last entry of a name winning.
list_index(list, lang) ==
    LET hits == {i \in 1..Len(list) : list[i].lang = lang}
    IN  IF hits = {} THEN None
        ELSE Some((CHOOSE i \in hits : \A j \in hits : j <= i) - 1)

\* index_map.get(lang).and_then(|&idx| entries.get(idx)).
entry_for(list, lang) ==
    LET idx == list_index(list, lang)
    IN  IF IsSome(idx) THEN Some(list[Unwrap(idx) + 1]) ELSE None

share_for(list, lang) ==
    LET e == entry_for(list, lang)
    IN  IF IsSome(e) THEN Unwrap(e).share ELSE R(0)

\* compare_descending(..) == Ordering::Less.
compare_descending(list, a, b) ==
    LET a_share == share_for(list, a)
        b_share == share_for(list, b)
    IN  \/ RLt(b_share, a_share)
        \/ ~RLt(a_share, b_share) /\ ~RLt(b_share, a_share) /\ StrLess(a, b)

\* compare_ascending(..) == Ordering::Less.
compare_ascending(map, a, b) ==
    LET a_value == IF a \in DOMAIN map THEN map[a] ELSE INFINITY
        b_value == IF b \in DOMAIN map THEN map[b] ELSE INFINITY
    IN  \/ RLt(a_value, b_value)
        \/ ~RLt(a_value, b_value) /\ ~RLt(b_value, a_value) /\ StrLess(a, b)

combined_score(lang, tiobe_list, pypl_list, bench) ==
    LET perf == IF lang \in DOMAIN bench THEN bench[lang] ELSE INFINITY
        perf_component == IF RLt(R(0), perf) /\ is_finite(perf)
                          THEN RDiv(R(1), perf) ELSE R(0)
    IN  RAdd(RAdd(share_for(tiobe_list, lang), share_for(pypl_list, lang)), perf_component)

\* A faulty comparator: a goes first as soon as its strength over b is
\* positive, whatever the strength of b over a.
ranked_before_positive(langs, pm, tiobe_list, pypl_list, bench, a, b) ==
    LET i_a == Unwrap(index_of(langs, a))
        i_b == Unwrap(index_of(langs, b))
    IN  pm[i_a][i_b] > 0

\* The closure of lines 753-782 returns Ordering::Less for (a, b).
ranked_before(langs, pm, tiobe_list, pypl_list, bench, a, b) ==
    LET i_a == Unwrap(index_of(langs, a))
        i_b == Unwrap(index_of(langs, b))
        score_a == combined_score(a, tiobe_list, pypl_list, bench)
        score_b == combined_score(b, tiobe_list, pypl_list, bench)
    IN  \/ pm[i_a][i_b] > pm[i_b][i_a]
        \/ /\ pm[i_a][i_b] = pm[i_b][i_a]
           /\ \/ RLt(score_a, score_b) = FALSE /\ RLt(score_b, score_a) = FALSE /\ StrLess(a, b)
              \/ RLt(score_b, score_a)

\* schulze_wins with the comparison turned around: the defeats suffered.
schulze_wins_lost(pm, idx) ==
    Cardinality({other \in DOMAIN pm : other # idx /\ pm[idx][other] < pm[other][idx]})

\* Line 787-789: wins of the candidate with index idx.
schulze_wins(pm, idx) ==
    Cardinality({other \in DOMAIN pm : other # idx /\ pm[idx][other] > pm[other][idx]})

\* overlapping without the filter on the benchmark set.
overlapping_rankings(tiobe_list, pypl_list, bench) ==
    {tiobe_list[i].lang : i \in 1..Len(tiobe_list)}
        \cap {pypl_list[i].lang : i \in 1..Len(pypl_list)}

\* Lines 717-725: the languages present in all three sets.
overlapping(tiobe_list, pypl_list, bench) ==
    {l \in {tiobe_list[i].lang : i \in 1..Len(tiobe_list)}
           \cap {pypl_list[i].lang : i \in 1..Len(pypl_list)} : l \in DOMAIN bench}

\* schulze_ballots with the performance ballot sorted worst-first.
schulze_ballots_slowest_first(langs, tiobe_list, pypl_list, bench) ==
    LET pairs == Elems(langs) \X Elems(langs)
    IN  << sort_by(langs, {ab \in pairs : compare_descending(tiobe_list, ab[1], ab[2])}),
           sort_by(langs, {ab \in pairs : compare_descending(pypl_list, ab[1], ab[2])}),
           sort_by(langs, {ab \in pairs : compare_ascending(bench, ab[2], ab[1])}) >>

\* Lines 736-743.
schulze_ballots(langs, tiobe_list, pypl_list, bench) ==
    LET pairs == Elems(langs) \X Elems(langs)
    IN  << sort_by(langs, {ab \in pairs : compare_descending(tiobe_list, ab[1], ab[2])}),
           sort_by(langs, {ab \in pairs : compare_descending(pypl_list, ab[1], ab[2])}),
           sort_by(langs, {ab \in pairs : compare_ascending(bench, ab[1], ab[2])}) >>

\* A faulty final sort: the candidates are left in name order.
schulze_ranked_unsorted(langs, pm, tiobe_list, pypl_list, bench) == langs

\* Lines 752-782.
schulze_ranked(langs, pm, tiobe_list, pypl_list, bench) ==
    sort_by(langs, {ab \in Elems(langs) \X Elems(langs) :
                       ranked_before(langs, pm, tiobe_list, pypl_list, bench, ab[1], ab[2])})

\* A faulty record: the wins are counted for the candidate whose index is the
\* record's place in the ranking.
schulze_record_by_place(place, lang, langs, pm, tiobe_list, pypl_list, bench) ==
    LET tiobe_entry == Unwrap(entry_for(tiobe_list, lang))
        pypl_entry  == Unwrap(entry_for(pypl_list, lang))
    IN  [position          |-> place + 1,
         lang              |-> lang,
         tiobe_rank        |-> tiobe_entry.rank,
         tiobe_share       |-> tiobe_entry.share,
         tiobe_trend       |-> tiobe_entry.trend,
         pypl_rank         |-> pypl_entry.rank,
         pypl_share        |-> pypl_entry.share,
         pypl_trend        |-> pypl_entry.trend,
         benchmark_elapsed |-> bench[lang],
         schulze_wins      |-> schulze_wins(pm, place)]

\* One SchulzeRecord (lines 786-815) for the language at 0-based `place`.
schulze_record(place, lang, langs, pm, tiobe_list, pypl_list, bench) ==
    LET tiobe_entry == Unwrap(entry_for(tiobe_list, lang))
        pypl_entry  == Unwrap(entry_for(pypl_list, lang))
    IN  [position          |-> place + 1,
         lang              |-> lang,
         tiobe_rank        |-> tiobe_entry.rank,
         tiobe_share       |-> tiobe_entry.share,
         tiobe_trend       |-> tiobe_entry.trend,
         pypl_rank         |-> pypl_entry.rank,
         pypl_share        |-> pypl_entry.share,
         pypl_trend        |-> pypl_entry.trend,
         benchmark_elapsed |-> bench[lang],
         schulze_wins      |-> schulze_wins(pm, Unwrap(index_of(langs, lang)))]

\* A faulty record loop: the enumeration index is shifted twice.
schulze_records_shifted(ranked, langs, pm, tiobe_list, pypl_list, bench) ==
    [k \in 1..Len(ranked) |->
        schulze_record(k, ranked[k], langs, pm, tiobe_list, pypl_list, bench)]

\* Lines 784-816: one record per ranked language, in ranked order.
schulze_records(ranked, langs, pm, tiobe_list, pypl_list, bench) ==
    [k \in 1..Len(ranked) |->
        schulze_record(k - 1, ranked[k], langs, pm, tiobe_list, pypl_list, bench)]

\* Lines 791-802: a ranked language without an entry in one of the three inputs.
missing_data(ranked, tiobe_list, pypl_list, bench) ==
    \E k \in 1..Len(ranked) :
        \/ ~IsSome(entry_for(tiobe_list, ranked[k]))
        \/ ~IsSome(entry_for(pypl_list, ranked[k]))
        \/ ranked[k] \notin DOMAIN bench

\* sorted_languages keeping two languages at most.
sorted_languages_capped(order) ==
    LET kept == SubSeq(order, 1, Min2(2, Len(order)))
    IN  sort_by(kept, by_name(kept))

\* Lines 721-734: the overlap collected in the hash set's iteration order
\* `order`, then sorted.
sorted_languages(order) == sort_by(order, by_name(order))

\* compute_schulze_records that asks for one language only.
compute_schulze_records_one(tiobe_list, pypl_list, bench, langs) ==
    IF Len(langs) < 1
    THEN [ballots |-> <<>>, d |-> NoMatrix, p |-> NoMatrix,
          outcome |-> [ok |-> FALSE, records |-> <<>>]]
    ELSE LET bs     == schulze_ballots(langs, tiobe_list, pypl_list, bench)
             m      == build_preference_matrices(langs, bs)
             ranked == schulze_ranked(langs, m.p, tiobe_list, pypl_list, bench)
         IN  [ballots |-> bs, d |-> m.d, p |-> m.p,
              outcome |->
                  IF missing_data(ranked, tiobe_list, pypl_list, bench)
                  THEN [ok |-> FALSE, records |-> <<>>]
                  ELSE [ok |-> TRUE,
                        records |-> schulze_records(ranked, langs, m.p, tiobe_list,
                                                    pypl_list, bench)]]

\* compute_schulze_records from line 727 on, `langs` being the overlap sorted:
\* the values of its locals and its result.
compute_schulze_records(tiobe_list, pypl_list, bench, langs) ==
    IF Len(langs) < 2
    THEN [ballots |-> <<>>, d |-> NoMatrix, p |-> NoMatrix,
          outcome |-> [ok |-> FALSE, records |-> <<>>]]
    ELSE LET bs     == schulze_ballots(langs, tiobe_list, pypl_list, bench)
             m      == build_preference_matrices(langs, bs)
             ranked == schulze_ranked(langs, m.p, tiobe_list, pypl_list, bench)
         IN  [ballots |-> bs, d |-> m.d, p |-> m.p,
              outcome |->
                  IF missing_data(ranked, tiobe_list, pypl_list, bench)
                  THEN [ok |-> FALSE, records |-> <<>>]
                  ELSE [ok |-> TRUE,
                        records |-> schulze_records(ranked, langs, m.p, tiobe_list,
                                                    pypl_list, bench)]]

(***************************************************************************)
(* SpecSchulze: compute_schulze_records applied to aggregated TIOBE and    *)
(* PYPL lists and a benchmark map. Three languages take every share in     *)
(* 0..MaxShare and every elapsed time in 1..MaxElapsed; a fourth one, when *)
(* present, has share 1 and elapsed time 3/2 everywhere. PYPL may lack C   *)
(* and the benchmark map may lack B.                                       *)
(***************************************************************************)
Shares == {R(n) : n \in 0..MaxShare}
Elapsed == {R(n) : n \in 1..MaxElapsed}

\* An aggregated list: one entry per name of the map, sorted by name.
ListOfShares(m) ==
    LET names == SelectSeq(<<S_A, S_B, S_C, S_D>>, LAMBDA l : l \in DOMAIN m)
    IN  [i \in 1..Len(names) |-> RankingEntry(names[i], None, m[names[i]], None)]

WithFourth(m, present, value) ==
    IF present THEN [l \in DOMAIN m \cup {S_D} |-> IF l = S_D THEN value ELSE m[l]] ELSE m

InitSchulze ==
    /\ pc = "start"
    /\ \E fourth \in BOOLEAN :
        /\ \E m \in [{S_A, S_B, S_C} -> Shares] :
               tiobe = ListOfShares(WithFourth(m, fourth, R(1)))
        /\ \E m \in [{S_A, S_B, S_C} -> Shares] \cup [{S_A, S_B} -> Shares] :
               pypl = ListOfShares(WithFourth(m, fourth, R(1)))
        /\ \E m \in [{S_A, S_B, S_C} -> Elapsed] \cup [{S_A, S_C} -> Elapsed] :
               benchmark = WithFourth(m, fourth, Rat(3, 2))
    /\ raw_tiobe = <<>>
    /\ raw_pypl = <<>>
    /\ entries = <<>>
    /\ result = <<>>
    /\ pypl_before = <<>>
    /\ languages = <<>>
    /\ ballots = <<>>
    /\ d = NoMatrix
    /\ p = NoMatrix
    /\ outcome = NoOutcome
    /\ ExtIdle
    /\ AuxIdle

\* main.rs 98: compute_schulze_records(&tiobe, &pypl, &benchmark_stats), for
\* every iteration order of the intersection of the hash sets.
ComputeSchulze ==
    /\ pc = "start"
    /\ languages' \in {sorted_languages(order) :
                           order \in IterOrders(overlapping(tiobe, pypl, benchmark))}
    /\ LET r == compute_schulze_records(tiobe, pypl, benchmark, languages')
       IN  /\ ballots' = r.ballots
           /\ d' = r.d
           /\ p' = r.p
           /\ outcome' = r.outcome
    /\ pc' = "computed"
    /\ UNCHANGED <<raw_tiobe, raw_pypl, entries, result, tiobe, pypl, pypl_before,
                   benchmark>>
    /\ UNCHANGED ext
    /\ UNCHANGED aux

NextSchulze == ComputeSchulze

SpecSchulze == InitSchulze /\ [][NextSchulze]_vars

(***************************************************************************)
(* Claims on compute_schulze_records.                                      *)
(***************************************************************************)
Ranked == pc = "computed" /\ outcome.ok

\* The comparator of the final sort on the state's candidates.
Before(a, b) == ranked_before(languages, p, tiobe, pypl, benchmark, a, b)

CandNames == {languages[i] : i \in 1..Len(languages)}

\* "a strictly beats b".
Beats(a, b) ==
    p[Unwrap(index_of(languages, a))][Unwrap(index_of(languages, b))]
        > p[Unwrap(index_of(languages, b))][Unwrap(index_of(languages, a))]

\* The 1-based place of language a in the record sequence.
PlaceOf(a) == CHOOSE k \in 1..Len(outcome.records) : outcome.records[k].lang = a

\* C8: the comparator of the final sort is a strict total order on the
\* candidates: irreflexive, antisymmetric, total and transitive, so without a
\* cycle.
C8_ComparatorTotalOrder ==
    Ranked =>
        LET Rel == {ab \in CandNames \X CandNames : Before(ab[1], ab[2])}
        IN  /\ \A a \in CandNames : <<a, a>> \notin Rel
            /\ \A a, b \in CandNames : a # b => (<<a, b>> \in Rel <=> <<b, a>> \notin Rel)
            /\ \A a, b, c \in CandNames :
                   (<<a, b>> \in Rel /\ <<b, c>> \in Rel) => <<a, c>> \in Rel

\* A run where the pairwise strengths tie on a cycle of defeats and the
\* comparator falls back on the combined score and on the name.
C8_Witness ==
    /\ Ranked
    /\ Len(languages) >= 3
    /\ \E a, b, c \in CandNames :
           /\ a # b /\ b # c /\ a # c
           /\ Beats(a, b)
           /\ ~Beats(b, c) /\ ~Beats(c, b)
           /\ Before(a, b) /\ Before(b, c) /\ Before(a, c)

\* C9: in the records, a stands before b whenever a strictly beats b.
C9_BeatsImpliesEarlier ==
    Ranked =>
        \A a, b \in CandNames : Beats(a, b) => PlaceOf(a) < PlaceOf(b)

\* A run where the name order and the combined score both put b first and the
\* strengths put a first.
C9_Witness ==
    /\ Ranked
    /\ \E a, b \in CandNames :
           /\ Beats(a, b)
           /\ StrLess(b, a)
           /\ PlaceOf(a) < PlaceOf(b)

\* C10: N records for N candidates, every candidate in exactly one record, the
\* positions 1, 2, ..., N in sequence order.
C10_OneRecordPerCandidate ==
    Ranked =>
        /\ Len(outcome.records) = Cardinality(overlapping(tiobe, pypl, benchmark))
        /\ \A l \in overlapping(tiobe, pypl, benchmark) :
               Cardinality({k \in 1..Len(outcome.records) : outcome.records[k].lang = l}) = 1
        /\ \A k \in 1..Len(outcome.records) : outcome.records[k].position = k

C10_Witness ==
    /\ Ranked
    /\ Len(outcome.records) = 4
    /\ outcome.records[4].position = 4
    /\ outcome.records[1].lang # languages[1]

\* The candidates that language a strictly beats.
Beaten(a) == {b \in CandNames \ {a} : Beats(a, b)}

\* The schulze_wins of the record of language a.
WinsOf(a) == outcome.records[PlaceOf(a)].schulze_wins

\* C23: the schulze_wins of every record is the number of other candidates
\* its language strictly beats, a number in 0..N-1, whatever position the
\* record has: records of languages that beat equally many candidates carry
\* equal wins.
C23_WinsCountBeaten ==
    Ranked =>
        /\ \A k \in 1..Len(outcome.records) :
               /\ outcome.records[k].schulze_wins
                      = Cardinality(Beaten(outcome.records[k].lang))
               /\ outcome.records[k].schulze_wins \in 0..(Len(languages) - 1)
        /\ \A a, b \in CandNames :
               Cardinality(Beaten(a)) = Cardinality(Beaten(b)) => WinsOf(a) = WinsOf(b)

\* A run of four candidates where a record with fewer wins stands before a
\* record with more wins, and the first record does not hold the first
\* candidate.
C23_Witness ==
    /\ Ranked
    /\ Len(languages) = 4
    /\ outcome.records[1].lang # languages[1]
    /\ \E k, l \in 1..Len(outcome.records) :
           /\ k < l
           /\ outcome.records[k].schulze_wins < outcome.records[l].schulze_wins

\* C24: a candidate that strictly beats another has strictly more wins.
C24_BeatsImpliesMoreWins ==
    Ranked =>
        \A a, b \in CandNames : Beats(a, b) => WinsOf(a) > WinsOf(b)

\* A run of four candidates where a beats all others and b, beaten by a,
\* beats one candidate itself.
C24_Witness ==
    /\ Ranked
    /\ Len(languages) = 4
    /\ \E a, b, c \in CandNames :
           /\ Beats(a, b)
           /\ Beats(b, c)
           /\ WinsOf(a) = 3
           /\ WinsOf(b) = 1

\* The share a list records for a name, 0 for a name it does not hold.
ShareOr0(list, l) ==
    LET at == {i \in 1..Len(list) : list[i].lang = l}
    IN  IF at = {} THEN R(0)
        ELSE list[CHOOSE i \in at : \A j \in at : j <= i].share

\* The time a map records for a name, infinite for a name it does not hold.
TimeOrInf(map, l) == IF l \in DOMAIN map THEN map[l] ELSE INFINITY

\* a stands before b on a popularity ballot: the larger share, then the name.
SharesFirst(list, a, b) ==
    \/ RLt(ShareOr0(list, b), ShareOr0(list, a))
    \/ /\ RLe(ShareOr0(list, a), ShareOr0(list, b))
       /\ RLe(ShareOr0(list, b), ShareOr0(list, a))
       /\ StrLess(a, b)

\* a stands before b on the performance ballot: the smaller time, then the
\* name.
FastestFirst(map, a, b) ==
    \/ RLt(TimeOrInf(map, a), TimeOrInf(map, b))
    \/ /\ RLe(TimeOrInf(map, a), TimeOrInf(map, b))
       /\ RLe(TimeOrInf(map, b), TimeOrInf(map, a))
       /\ StrLess(a, b)

\* A ballot holds every candidate exactly once.
IsPermutation(ballot) ==
    /\ Len(ballot) = Len(languages)
    /\ Elems(ballot) = Elems(languages)

\* C14: each of the three ballots of compute_schulze_records holds every
\* candidate exactly once, best first by its metric (share descending on the
\* TIOBE and PYPL ballots, benchmark value ascending on the performance
\* ballot), equal values in ascending order of name; a name without data
\* counts as share 0 or infinite time.
C14_BallotsArePermutationsBestFirst ==
    (pc = "computed" /\ Len(languages) >= 2) =>
        /\ Len(ballots) = NumBallots
        /\ \A k \in 1..NumBallots : IsPermutation(ballots[k])
        /\ \A i \in 1..Len(languages), j \in 1..Len(languages) :
               i < j =>
                   /\ SharesFirst(tiobe, ballots[1][i], ballots[1][j])
                   /\ SharesFirst(pypl, ballots[2][i], ballots[2][j])
                   /\ FastestFirst(benchmark, ballots[3][i], ballots[3][j])

\* Three ballots in three different orders, one of them settled by a tie on
\* the share.
C14_Witness ==
    /\ pc = "computed"
    /\ Len(languages) = 3
    /\ ballots[1] # ballots[2]
    /\ ballots[2] # ballots[3]
    /\ ballots[1] # ballots[3]
    /\ ShareOr0(tiobe, ballots[1][1]) = ShareOr0(tiobe, ballots[1][2])

(***************************************************************************)
(* sources/benchmarks.rs: compute_benchmark_stats_sync. The table is a     *)
(* header record (column names) and data records; a data field is a        *)
(* String. f64 values that are not finite: NAN below, INFINITY above.      *)
(***************************************************************************)
NAN == <<0, 0>>

\* char::to_uppercase on the letters of the model.
to_uppercase(ch) ==
    IF Code[ch] >= 97 /\ Code[ch] <= 122
    THEN CHOOSE c \in Alphabet : Code[c] = Code[ch] - 32
    ELSE ch

\* str::to_lowercase.
str_to_lowercase(s) == [i \in 1..Len(s) |-> to_lowercase(s[i])]

\* Lines 192-200.
capitalize_word(input) ==
    IF input = <<>> THEN <<>>
    ELSE <<to_uppercase(input[1])>> \o str_to_lowercase(Tail(input))

\* The rows of BENCHMARK_ALIASES that the tables of the model can hit.
benchmark_aliases ==
    (<<"f", "p", "a", "s", "c", "a", "l">> :> S_FreePascal) @@
    (<<"g", "c", "c">> :> S_CCpp) @@
    (<<"g", "p", "p">> :> S_CCpp) @@
    (<<"g", "o">> :> S_Go) @@
    (<<"r", "u", "s", "t">> :> S_Rust) @@
    (<<"v", "w">> :> <<>>)

\* Lines 131-142.
canonical_benchmark_lang(lang_lower) ==
    IF lang_lower \in DOMAIN benchmark_aliases
    THEN IF benchmark_aliases[lang_lower] = <<>> THEN None
         ELSE Some(benchmark_aliases[lang_lower])
    ELSE Some(capitalize_word(lang_lower))

DigitVal ==
    ("0" :> 0) @@ ("1" :> 1) @@ ("2" :> 2) @@ ("3" :> 3) @@ ("4" :> 4) @@
    ("5" :> 5) @@ ("6" :> 6) @@ ("7" :> 7) @@ ("8" :> 8) @@ ("9" :> 9)

\* The value of a string of decimal digits.
RECURSIVE digits_value(_)
digits_value(s) ==
    IF s = <<>> THEN 0
    ELSE 10 * digits_value(SubSeq(s, 1, Len(s) - 1)) + DigitVal[s[Len(s)]]

all_digits(s) == \A i \in 1..Len(s) : s[i] \in DOMAIN DigitVal

RECURSIVE pow10(_)
pow10(n) == IF n = 0 THEN 1 ELSE 10 * pow10(n - 1)

\* str::parse::<i64>: an optional sign and one digit or more (no overflow
\* at the widths of the model).
parse_i64(s) ==
    LET signed == s # <<>> /\ s[1] \in {"+", "-"}
        digits == IF signed THEN Tail(s) ELSE s
    IN  IF digits = <<>> \/ ~all_digits(digits) THEN None
        ELSE Some(IF signed /\ s[1] = "-" THEN 0 - digits_value(digits)
                  ELSE digits_value(digits))

\* str::parse::<f64> on the spellings of the model: an optional sign, then
\* "inf", "NaN", or digits with at most one point and one digit at least.
parse_f64(s) ==
    LET signed == s # <<>> /\ s[1] \in {"+", "-"}
        neg    == signed /\ s[1] = "-"
        body   == IF signed THEN Tail(s) ELSE s
        points == {i \in 1..Len(body) : body[i] = "."}
        whole  == IF points = {} THEN body
                  ELSE SubSeq(body, 1, (CHOOSE i \in points : TRUE) - 1)
        frac   == IF points = {} THEN <<>>
                  ELSE SubSeq(body, (CHOOSE i \in points : TRUE) + 1, Len(body))
    IN  IF body = <<"i", "n", "f">> THEN Some(IF neg THEN <<-1, 0>> ELSE INFINITY)
        ELSE IF body = <<"N", "a", "N">> THEN Some(NAN)
        ELSE IF Cardinality(points) > 1 \/ ~all_digits(whole) \/ ~all_digits(frac)
                \/ Len(whole) + Len(frac) = 0
             THEN None
             ELSE LET magnitude == Rat(digits_value(whole \o frac), pow10(Len(frac)))
                  IN  Some(IF neg THEN RSub(R(0), magnitude) ELSE magnitude)

\* headers.iter().position(|h| h == col), 0-based.
header_position(hdr, col) ==
    LET hits == {i \in 1..Len(hdr) : hdr[i] = col}
    IN  IF hits = {} THEN None
        ELSE Some((CHOOSE i \in hits : \A j \in hits : i <= j) - 1)

\* record.get(idx).unwrap_or("").trim().
field(record, idx) ==
    IF idx + 1 <= Len(record) THEN trim(record[idx + 1]) ELSE <<>>

COL_LANG == "lang"
COL_NAME == "name"
COL_STATUS == "status"
COL_ELAPSED == "elapsed-time(s)"

RequiredColumns == {COL_LANG, COL_NAME, COL_STATUS, COL_ELAPSED}

\* header_indices with a missing column read as the first one.
header_indices_lenient(hdr) ==
    LET at(col) == IF IsSome(header_position(hdr, col))
                   THEN Unwrap(header_position(hdr, col)) ELSE 0
    IN  Some([lang    |-> at(COL_LANG),
              name    |-> at(COL_NAME),
              status  |-> at(COL_STATUS),
              elapsed |-> at(COL_ELAPSED)])

\* Lines 32-51: the four column indices, or the error of the first column
\* that is missing.
header_indices(hdr) ==
    IF \E col \in RequiredColumns : ~IsSome(header_position(hdr, col)) THEN None
    ELSE Some([lang    |-> Unwrap(header_position(hdr, COL_LANG)),
               name    |-> Unwrap(header_position(hdr, COL_NAME)),
               status  |-> Unwrap(header_position(hdr, COL_STATUS)),
               elapsed |-> Unwrap(header_position(hdr, COL_ELAPSED))])

\* accepted without the test of the status.
accepted_any_status(record, idx) ==
    LET lang_raw    == field(record, idx.lang)
        name        == field(record, idx.name)
        elapsed_str == field(record, idx.elapsed)
        elapsed     == parse_f64(elapsed_str)
    IN  IF lang_raw = <<>> \/ name = <<>> \/ elapsed_str = <<>> THEN None
        ELSE IF ~IsSome(elapsed) THEN None
        ELSE IF ~(is_finite(Unwrap(elapsed)) /\ RLt(R(0), Unwrap(elapsed))) THEN None
        ELSE Some([key     |-> <<str_to_lowercase(lang_raw), name>>,
                   elapsed |-> Unwrap(elapsed)])

\* Lines 57-78: the key and the time of a record the loop keeps, None for a
\* record the loop skips.
accepted(record, idx) ==
    LET status      == parse_i64(field(record, idx.status))
        lang_raw    == field(record, idx.lang)
        name        == field(record, idx.name)
        elapsed_str == field(record, idx.elapsed)
        elapsed     == parse_f64(elapsed_str)
    IN  IF ~IsSome(status) THEN None
        ELSE IF Unwrap(status) < 0 THEN None
        ELSE IF lang_raw = <<>> \/ name = <<>> \/ elapsed_str = <<>> THEN None
        ELSE IF ~IsSome(elapsed) THEN None
        ELSE IF ~(is_finite(Unwrap(elapsed)) /\ RLt(R(0), Unwrap(elapsed))) THEN None
        ELSE Some([key     |-> <<str_to_lowercase(lang_raw), name>>,
                   elapsed |-> Unwrap(elapsed)])

\* Lines 56-83: the best time of every (language, task) pair.
RECURSIVE best_per_problem(_, _)
best_per_problem(records, idx) ==
    IF records = <<>> THEN <<>>
    ELSE LET before == best_per_problem(SubSeq(records, 1, Len(records) - 1), idx)
             row    == accepted(records[Len(records)], idx)
         IN  IF ~IsSome(row) THEN before
             ELSE LET key   == Unwrap(row).key
                      e     == Unwrap(row).elapsed
                      entry == IF key \in DOMAIN before THEN before[key] ELSE INFINITY
                  IN  [k \in DOMAIN before \cup {key} |->
                          IF k = key THEN (IF RLt(e, entry) THEN e ELSE entry)
                          ELSE before[k]]

\* Lines 85-96: the times of each canonical language, pushed in the order
\* the map of best times iterates in.
RECURSIVE per_lang(_, _)
per_lang(best, order) ==
    IF order = <<>> THEN <<>>
    ELSE LET before    == per_lang(best, SubSeq(order, 1, Len(order) - 1))
             key       == order[Len(order)]
             elapsed   == best[key]
             canonical == canonical_benchmark_lang(key[1])
         IN  IF ~is_finite(elapsed) \/ RLe(elapsed, R(0)) THEN before
             ELSE IF ~IsSome(canonical) THEN before
             ELSE IF Unwrap(canonical) = <<>> THEN before
             ELSE LET c == Unwrap(canonical)
                  IN  [l \in DOMAIN before \cup {c} |->
                          IF l = c
                          THEN Append(IF c \in DOMAIN before THEN before[c] ELSE <<>>,
                                      elapsed)
                          ELSE before[l]]

\* f64::total_cmp as Ordering::Less on the values of a vector.
by_total_cmp(values) ==
    {ab \in Elems(values) \X Elems(values) : RLt(ab[1], ab[2])}

\* f64::midpoint.
midpoint(a, b) == RDiv(RAdd(a, b), R(2))

\* median_of taking the value pushed first.
median_of_first(values) == values[1]

\* Lines 104-117: select_nth_unstable_by(mid) leaves the mid-th smallest
\* value at mid and the smaller ones before it.
median_of(values) ==
    LET len    == Len(values)
        mid    == len \div 2
        sorted == sort_by(values, by_total_cmp(values))
    IN  IF len % 2 = 1 THEN sorted[mid + 1]
        ELSE midpoint(sorted[mid], sorted[mid + 1])

\* Lines 98-121.
medians_of(lists) ==
    LET kept == {l \in DOMAIN lists :
                    Len(lists[l]) # 0 /\ is_finite(median_of(lists[l]))}
    IN  [l \in kept |-> median_of(lists[l])]

\* Lines 123-126.
copy_c_cpp(medians) ==
    IF S_CCpp \in DOMAIN medians
    THEN [l \in DOMAIN medians \cup {S_C, S_Cpp} |->
             IF l \in {S_C, S_Cpp} THEN medians[S_CCpp] ELSE medians[l]]
    ELSE medians

\* Lines 25-129, with the order the map of best times iterates in.
compute_benchmark_stats_sync(hdr, records, order) ==
    LET idx == header_indices(hdr)
    IN  IF ~IsSome(idx) THEN [ok |-> FALSE, map |-> <<>>]
        ELSE LET best == best_per_problem(records, Unwrap(idx))
             IN  [ok  |-> TRUE,
                  map |-> copy_c_cpp(medians_of(per_lang(best, order)))]

\* The keys the map of best times holds after the record loop.
best_keys(hdr, records) ==
    IF IsSome(header_indices(hdr))
    THEN DOMAIN best_per_problem(records, Unwrap(header_indices(hdr)))
    ELSE {}

\* The results of compute_benchmark_stats_sync over the iteration orders.
benchmark_stats(hdr, records) ==
    {compute_benchmark_stats_sync(hdr, records, order) :
        order \in IterOrders(best_keys(hdr, records))}

(***************************************************************************)
(* The benchmark tables of the model and load_benchmark_stats on its own.  *)
(***************************************************************************)
MaxRows == 3

\* The core variables before anything has used them.
CoreIdle ==
    /\ raw_tiobe = <<>>
    /\ raw_pypl = <<>>
    /\ entries = <<>>
    /\ result = <<>>
    /\ tiobe = <<>>
    /\ pypl = <<>>
    /\ pypl_before = <<>>
    /\ benchmark = <<>>
    /\ languages = <<>>
    /\ ballots = <<>>
    /\ d = NoMatrix
    /\ p = NoMatrix
    /\ outcome = NoOutcome

Row(lang, name, status, elapsed) ==
    [lang |-> lang, name |-> name, status |-> status, elapsed |-> elapsed]

\* The CSV record of a row under a header: each field in its column.
record_of(hdr, r) ==
    [i \in 1..Len(hdr) |->
        IF hdr[i] = COL_LANG THEN r.lang
        ELSE IF hdr[i] = COL_NAME THEN r.name
        ELSE IF hdr[i] = COL_STATUS THEN r.status
        ELSE IF hdr[i] = COL_ELAPSED THEN r.elapsed
        ELSE <<>>]

records_of(hdr, rs) == [i \in 1..Len(rs) |-> record_of(hdr, rs[i])]

F_go == <<"g", "o">>
F_python == <<"p", "y", "t", "h", "o", "n">>
F_rust == <<"r", "u", "s", "t">>
F_gcc == <<"g", "c", "c">>
F_vw == <<"v", "w">>
F_gpp == <<"g", "p", "p">>
F_c == <<"c">>

\* Rows the record loop keeps.
GoodRows ==
    {Row(F_go, <<n>>, <<"0">>, <<e>>) : n \in {"a", "b", "c"}, e \in {"1", "4"}} \cup
    {Row(F_python, <<"a">>, <<"0">>, <<"4">>),
     Row(<<" ", "P", "y", "t", "h", "o", "n">>, <<"b">>, <<"1">>, <<"1", ".", "0">>),
     Row(F_rust, <<"a">>, <<"0">>, <<"1">>),
     Row(F_gcc, <<"a">>, <<"0">>, <<"4">>),
     Row(F_gpp, <<"a">>, <<"0">>, <<"1">>),
     Row(F_c, <<"a">>, <<"0">>, <<"1">>),
     Row(F_vw, <<"a">>, <<"0">>, <<"1">>)}

\* Status fields the record loop rejects: negative, not a number.
BadStatus == {<<"-", "1">>, <<"x">>, <<>>}

\* Elapsed fields the record loop rejects: empty, not a number, not finite,
\* not positive.
BadElapsed ==
    {<<>>, <<"x">>, <<"i", "n", "f">>, <<"N", "a", "N">>, <<"0">>, <<"-", "1">>}

BadRows ==
    {Row(F_python, <<"a">>, st, <<"1">>) : st \in BadStatus} \cup
    {Row(F_python, <<"a">>, <<"0">>, el) : el \in BadElapsed}

BenchRows == GoodRows \cup BadRows

FullHeader == <<COL_LANG, COL_NAME, COL_STATUS, COL_ELAPSED>>

Without(hdr, col) == SelectSeq(hdr, LAMBDA h : h # col)

\* Headers with the four columns, in two layouts.
GoodHeaders == {FullHeader, <<"id", COL_ELAPSED, COL_STATUS, COL_NAME, COL_LANG>>}

\* Headers that lack one of the four columns.
BadHeaders == {Without(FullHeader, col) : col \in RequiredColumns}

RowSeqs(n) == UNION {[1..k -> BenchRows] : k \in 0..n}

InitBench ==
    /\ pc = "loaded_bytes"
    /\ CoreIdle
    /\ \E hdr \in GoodHeaders \cup BadHeaders, rs \in RowSeqs(MaxRows) :
           /\ header = hdr
           /\ rows = records_of(hdr, rs)
    /\ stats = NoStats
    /\ fetch = <<>>
    /\ save = {}
    /\ files = {}
    /\ printed = FALSE
    /\ error = None
    /\ attempt = 0
    /\ last_err = None
    /\ sent = <<>>
    /\ reply = None
    /\ AuxIdle

\* main.rs 96: load_benchmark_stats(&bench_bytes).await?, for every iteration
\* order of the map of best times.
LoadBenchmarkStats ==
    /\ pc = "loaded_bytes"
    /\ stats' \in benchmark_stats(header, rows)
    /\ benchmark' = stats'.map
    /\ error' = IF stats'.ok THEN None ELSE Some("load_benchmark_stats")
    /\ pc' = IF stats'.ok THEN "stats" ELSE "failed"
    /\ UNCHANGED <<raw_tiobe, raw_pypl, entries, result, tiobe, pypl, pypl_before,
                   languages, ballots, d, p, outcome>>
    /\ UNCHANGED <<header, rows, fetch, save, files, printed, attempt, last_err,
                   sent, reply>>
    /\ UNCHANGED aux

NextBench == LoadBenchmarkStats

SpecBench == InitBench /\ [][NextBench]_vars

(***************************************************************************)
(* SpecMain: main.rs 75-117, one run. What the three sites serve is fixed  *)
(* at the start; try_join! polls the three fetches in any order and        *)
(* returns at the first error; every later step ends the run on its error. *)
(***************************************************************************)
Sources == {"tiobe", "pypl", "bench"}

SaveOptions == {"rankings", "benchmarks", "schulze"}

T_C == RawEntry(S_C, Some(2), R(5), None)
T_Cpp == RawEntry(S_Cpp, Some(3), R(15), None)
T_Go == RawEntry(S_Go, Some(7), R(2), None)
T_Python == RawEntry(S_Python, Some(1), R(9), None)
P_CCpp == RawEntry(S_CCpp, Some(4), R(20), Some(R(2)))
P_Go == RawEntry(S_Go, Some(9), R(1), None)
P_Python == RawEntry(S_Python, Some(1), R(3), Some(R(-1)))

\* What the TIOBE and PYPL pages list.
TiobeSites == {<<T_Go>>, <<T_C, T_Cpp, T_Go>>, <<T_Go, T_Python, T_Go>>}
PyplSites == {<<P_Go>>, <<P_CCpp, P_Go>>, <<P_Python, P_Go, P_CCpp>>}

R_go_a == Row(F_go, <<"a">>, <<"0">>, <<"1">>)
R_go_b == Row(F_go, <<"b">>, <<"0">>, <<"4">>)
R_gcc_a == Row(F_gcc, <<"a">>, <<"0">>, <<"4">>)
R_python_a == Row(F_python, <<"a">>, <<"0">>, <<"4">>)
R_python_bad == Row(F_python, <<"b">>, <<"-", "1">>, <<"1">>)

\* The benchmark tables the site serves: header and rows.
BenchSites ==
    {<<hdr, records_of(hdr, rs)>> :
        hdr \in {FullHeader},
        rs \in {<<>>, <<R_go_a>>, <<R_go_a, R_go_b, R_gcc_a>>,
                <<R_go_a, R_python_a, R_gcc_a, R_python_bad>>}} \cup
    {<<hdr, records_of(hdr, rs)>> :
        hdr \in BadHeaders, rs \in {<<R_go_a, R_python_a, R_gcc_a>>, <<R_python_bad>>}}

Pending == [s \in Sources |-> "pending"]

InitMain ==
    /\ pc = "fetching"
    /\ raw_tiobe \in TiobeSites
    /\ raw_pypl \in PyplSites
    /\ \E site \in BenchSites : header = site[1] /\ rows = site[2]
    /\ save \in SUBSET SaveOptions
    /\ fetch = Pending
    /\ entries = <<>>
    /\ result = <<>>
    /\ tiobe = <<>>
    /\ pypl = <<>>
    /\ pypl_before = <<>>
    /\ benchmark = <<>>
    /\ languages = <<>>
    /\ ballots = <<>>
    /\ d = NoMatrix
    /\ p = NoMatrix
    /\ outcome = NoOutcome
    /\ stats = NoStats
    /\ files = {}
    /\ printed = FALSE
    /\ error = None
    /\ attempt = 0
    /\ last_err = None
    /\ sent = <<>>
    /\ reply = None
    /\ AuxIdle

\* The state of try_join! after the fetch s has returned Ok.
joined(s) == [fetch EXCEPT ![s] = "ok"]

\* Line 79: try_join! is ready with Ok once the three fetches are.
after_join(f) == IF \A s \in Sources : f[s] = "ok" THEN "fetched" ELSE "fetching"

\* Line 76: fetch_tiobe returns Ok.
FetchTiobe ==
    /\ pc = "fetching"
    /\ fetch["tiobe"] = "pending"
    /\ tiobe' \in {main_aggregate_entries(raw_tiobe, order) :
                      order \in IterOrders(DOMAIN AggFold(raw_tiobe, main_keys(raw_tiobe)))}
    /\ fetch' = joined("tiobe")
    /\ pc' = after_join(fetch')
    /\ UNCHANGED <<raw_tiobe, raw_pypl, entries, result, pypl, pypl_before, benchmark,
                   languages, ballots, d, p, outcome>>
    /\ UNCHANGED <<header, rows, stats, save, files, printed, error, attempt,
                   last_err, sent, reply>>
    /\ UNCHANGED aux

\* Line 77: fetch_pypl returns Ok.
FetchPypl ==
    /\ pc = "fetching"
    /\ fetch["pypl"] = "pending"
    /\ pypl' \in {main_aggregate_entries(raw_pypl, order) :
                     order \in IterOrders(DOMAIN AggFold(raw_pypl, main_keys(raw_pypl)))}
    /\ fetch' = joined("pypl")
    /\ pc' = after_join(fetch')
    /\ UNCHANGED <<raw_tiobe, raw_pypl, entries, result, tiobe, pypl_before, benchmark,
                   languages, ballots, d, p, outcome>>
    /\ UNCHANGED <<header, rows, stats, save, files, printed, error, attempt,
                   last_err, sent, reply>>
    /\ UNCHANGED aux

\* Line 78: download_benchmark_data returns Ok.
DownloadBenchmarkData ==
    /\ pc = "fetching"
    /\ fetch["bench"] = "pending"
    /\ fetch' = joined("bench")
    /\ pc' = after_join(fetch')
    /\ UNCHANGED core
    /\ UNCHANGED <<header, rows, stats, save, files, printed, error, attempt,
                   last_err, sent, reply>>
    /\ UNCHANGED aux

\* A fetch that returns Err and goes on: what a join that waits for the
\* three fetches would do.
FetchFails_waiting ==
    /\ pc = "fetching"
    /\ \E s \in Sources :
           /\ fetch[s] = "pending"
           /\ fetch' = [fetch EXCEPT ![s] = "err"]
           /\ error' = IF error = None THEN Some(s) ELSE error
    /\ pc' = IF \A s \in Sources : fetch'[s] # "pending" THEN "failed" ELSE "fetching"
    /\ UNCHANGED core
    /\ UNCHANGED <<header, rows, stats, save, files, printed, attempt, last_err,
                   sent, reply>>
    /\ UNCHANGED aux

\* Lines 75-79: a fetch returns Err; try_join! returns it at once, dropping
\* the fetches still pending, and `?` ends main with it.
FetchFails ==
    /\ pc = "fetching"
    /\ \E s \in Sources :
           /\ fetch[s] = "pending"
           /\ fetch' = [fetch EXCEPT ![s] = "err"]
           /\ error' = Some(s)
    /\ pc' = "failed"
    /\ UNCHANGED core
    /\ UNCHANGED <<header, rows, stats, save, files, printed, attempt, last_err,
                   sent, reply>>
    /\ UNCHANGED aux

\* Lines 84-90: save_rankings_csv when --save-rankings is given; its error
\* ends main.
SaveRankings ==
    /\ pc = "adjusted"
    /\ \/ /\ "rankings" \notin save
          /\ pc' = "rankings_done"
          /\ UNCHANGED <<files, error>>
       \/ /\ "rankings" \in save
          /\ files' = files \cup {"rankings"}
          /\ pc' = "rankings_done"
          /\ UNCHANGED error
       \/ /\ "rankings" \in save
          /\ error' = Some("save_rankings_csv")
          /\ pc' = "failed"
          /\ UNCHANGED files
    /\ UNCHANGED core
    /\ UNCHANGED <<header, rows, stats, fetch, save, printed, attempt, last_err,
                   sent, reply>>
    /\ UNCHANGED aux

\* Lines 92-94: save_benchmarks_csv when --save-benchmarks is given.
SaveBenchmarks ==
    /\ pc = "rankings_done"
    /\ \/ /\ "benchmarks" \notin save
          /\ pc' = "loaded_bytes"
          /\ UNCHANGED <<files, error>>
       \/ /\ "benchmarks" \in save
          /\ files' = files \cup {"benchmarks"}
          /\ pc' = "loaded_bytes"
          /\ UNCHANGED error
       \/ /\ "benchmarks" \in save
          /\ error' = Some("save_benchmarks_csv")
          /\ pc' = "failed"
          /\ UNCHANGED files
    /\ UNCHANGED core
    /\ UNCHANGED <<header, rows, stats, fetch, save, printed, attempt, last_err,
                   sent, reply>>
    /\ UNCHANGED aux

\* Line 98: compute_schulze_records(&tiobe, &pypl, &benchmark_stats)?, for
\* every iteration order of the intersection of the hash sets.
ComputeSchulzeRecords ==
    /\ pc = "stats"
    /\ languages' \in {sorted_languages(order) :
                           order \in IterOrders(overlapping(tiobe, pypl, benchmark))}
    /\ LET r == compute_schulze_records(tiobe, pypl, benchmark, languages')
       IN  /\ ballots' = r.ballots
           /\ d' = r.d
           /\ p' = r.p
           /\ outcome' = r.outcome
           /\ error' = IF r.outcome.ok THEN None ELSE Some("compute_schulze_records")
           /\ pc' = IF r.outcome.ok THEN "computed" ELSE "failed"
    /\ UNCHANGED <<raw_tiobe, raw_pypl, entries, result, tiobe, pypl, pypl_before,
                   benchmark>>
    /\ UNCHANGED <<header, rows, stats, fetch, save, files, printed, attempt,
                   last_err, sent, reply>>
    /\ UNCHANGED aux

\* Lines 99-101: save_schulze_csv when --save-schulze is given.
SaveSchulze ==
    /\ pc = "computed"
    /\ \/ /\ "schulze" \notin save
          /\ pc' = "schulze_done"
          /\ UNCHANGED <<files, error>>
       \/ /\ "schulze" \in save
          /\ files' = files \cup {"schulze"}
          /\ pc' = "schulze_done"
          /\ UNCHANGED error
       \/ /\ "schulze" \in save
          /\ error' = Some("save_schulze_csv")
          /\ pc' = "failed"
          /\ UNCHANGED files
    /\ UNCHANGED core
    /\ UNCHANGED <<header, rows, stats, fetch, save, printed, attempt, last_err,
                   sent, reply>>
    /\ UNCHANGED aux

\* Lines 103-117: print_summary prints the ranking and main returns Ok.
PrintSummary ==
    /\ pc = "schulze_done"
    /\ printed' = TRUE
    /\ pc' = "done"
    /\ UNCHANGED core
    /\ UNCHANGED <<header, rows, stats, fetch, save, files, error, attempt,
                   last_err, sent, reply>>
    /\ UNCHANGED aux

NextMain ==
    \/ FetchTiobe
    \/ FetchPypl
    \/ DownloadBenchmarkData
    \/ FetchFails
    \/ AdjustPypl
    \/ SaveRankings
    \/ SaveBenchmarks
    \/ LoadBenchmarkStats
    \/ ComputeSchulzeRecords
    \/ SaveSchulze
    \/ PrintSummary

SpecMain == InitMain /\ [][NextMain]_vars

(***************************************************************************)
(* Properties of one run of main (SpecMain).                               *)
(***************************************************************************)
\* The languages present in the three signal sets main hands over.
Qualifying == overlapping(tiobe, pypl, benchmark)

\* compute_schulze_records has returned.
SchulzeReturned ==
    \/ pc \in {"computed", "schulze_done", "done"}
    \/ pc = "failed" /\ error \in {Some("compute_schulze_records"), Some("save_schulze_csv")}

RecordLangs == {outcome.records[i].lang : i \in 1..Len(outcome.records)}

\* C11: with fewer than two languages in all three signal sets,
\* compute_schulze_records returns an error and no record, and the run ends
\* with it, the Schulze CSV unwritten and no ranking printed; with two or
\* more it returns the ranking of all of them without error.
C11_FewerThanTwoIsAnError ==
    SchulzeReturned =>
        IF Cardinality(Qualifying) < 2
        THEN /\ ~outcome.ok
             /\ outcome.records = <<>>
             /\ pc = "failed"
             /\ error = Some("compute_schulze_records")
             /\ "schulze" \notin files
             /\ ~printed
        ELSE /\ outcome.ok
             /\ RecordLangs = Qualifying
             /\ Len(outcome.records) = Cardinality(Qualifying)

\* The run has ended on one qualifying language, --save-schulze given.
C11_Witness ==
    /\ pc = "failed"
    /\ error = Some("compute_schulze_records")
    /\ Cardinality(Qualifying) = 1
    /\ "schulze" \in save

SignalSets ==
    << {tiobe[i].lang : i \in 1..Len(tiobe)},
       {pypl[i].lang : i \in 1..Len(pypl)},
       DOMAIN benchmark >>

\* The number of signal sets a language appears in.
SignalCount(l) == Cardinality({k \in DOMAIN SignalSets : l \in SignalSets[k]})

\* The minimum compute_schulze_records asks for: every available set.
MinSignals == Len(SignalSets)

AllNames == UNION {SignalSets[k] : k \in DOMAIN SignalSets}

\* C13: a language is in the candidate set only if it appears in at least
\* the minimum number of signal sets, which compute_schulze_records fixes at
\* all three of them, and every language that reaches it is in the set (no
\* cap applies).
C13_MemberIffInEnoughSets ==
    SchulzeReturned =>
        /\ \A l \in Elems(languages) : SignalCount(l) >= MinSignals
        /\ \A l \in AllNames : SignalCount(l) >= MinSignals => l \in Elems(languages)

\* Go is ranked while Python, in two sets of three, is left out.
C13_Witness ==
    /\ SchulzeReturned
    /\ outcome.ok
    /\ S_Go \in Elems(languages)
    /\ S_Python \in AllNames
    /\ SignalCount(S_Python) = 2
    /\ S_Python \notin Elems(languages)

\* What main.rs's and sources.rs's aggregate_entries can return for the
\* samples es, over the iteration orders of the hash map.
MainLists(es) ==
    {main_aggregate_entries(es, order) :
        order \in IterOrders(DOMAIN AggFold(es, main_keys(es)))}

SourcesLists(es) ==
    {aggregate_entries(es, order) :
        order \in IterOrders(DOMAIN AggFold(es, canonical_keys(es)))}

\* What compute_schulze_records can return for aggregated lists and a map,
\* over the iteration orders of the intersection.
SchulzeOutcomes(t, q, map) ==
    {compute_schulze_records(t, q, map, sorted_languages(order)).outcome :
        order \in IterOrders(overlapping(t, q, map))}

\* What the pipeline can return for lists out of ts and ps and statistics
\* out of bs.
PipelineOutcomes(ts, ps, bs) ==
    UNION {SchulzeOutcomes(x[1], adjust_pypl_entries(x[1], x[2]), x[3].map) :
              x \in ts \X ps \X {b \in bs : b.ok}}

\* C15: every run of the pipeline (aggregate_entries, adjust_pypl_entries,
\* compute_benchmark_stats_sync, compute_schulze_records) on the raw inputs
\* of this run returns the result of this run, whatever order its hash maps
\* and hash sets iterate in; so it is with the aggregate_entries of
\* sources.rs in the place of main.rs's.
C15_SameInputsSameRecords ==
    SchulzeReturned =>
        /\ PipelineOutcomes(MainLists(raw_tiobe), MainLists(raw_pypl),
                            benchmark_stats(header, rows)) = {outcome}
        /\ Cardinality(PipelineOutcomes(SourcesLists(raw_tiobe), SourcesLists(raw_pypl),
                                        benchmark_stats(header, rows))) = 1

\* A run has ranked three languages where every hash map and hash set had
\* more than one order to iterate in.
C15_Witness ==
    /\ SchulzeReturned
    /\ outcome.ok
    /\ Len(languages) = 3
    /\ Cardinality(DOMAIN AggFold(raw_tiobe, main_keys(raw_tiobe))) > 1
    /\ Cardinality(DOMAIN AggFold(raw_pypl, main_keys(raw_pypl))) > 1
    /\ Cardinality(best_keys(header, rows)) > 2

\* The header lacks one of the four columns.
HeaderLacksColumn == \E col \in RequiredColumns : col \notin Elems(header)

\* load_benchmark_stats has returned.
StatsReturned ==
    \/ pc \in {"stats", "computed", "schulze_done", "done"}
    \/ pc = "failed" /\ error \in {Some("load_benchmark_stats"),
                                   Some("compute_schulze_records"),
                                   Some("save_schulze_csv")}

\* C18: when the header lacks lang, name, status or elapsed-time(s),
\* compute_benchmark_stats_sync returns an error and no map whatever the
\* rows hold, and the run ends with it: no ranking computed, saved or
\* printed.
C18_MissingColumnIsAnError ==
    (StatsReturned /\ HeaderLacksColumn) =>
        /\ ~stats.ok
        /\ stats.map = <<>>
        /\ pc = "failed"
        /\ error = Some("load_benchmark_stats")
        /\ languages = <<>>
        /\ outcome = NoOutcome
        /\ "schulze" \notin files
        /\ ~printed

\* The run has ended on a table with rows under a header without `status`.
C18_Witness ==
    /\ pc = "failed"
    /\ error = Some("load_benchmark_stats")
    /\ COL_STATUS \notin Elems(header)
    /\ Len(rows) = 3

\* A fetch has returned an error.
FetchFailed == \E s \in Sources : fetch[s] = "err"

\* The PYPL list is as fetch_pypl returned it, if it has.
PyplAsFetched ==
    pypl \in {<<>>} \cup
             {main_aggregate_entries(raw_pypl, order) :
                 order \in IterOrders(DOMAIN AggFold(raw_pypl, main_keys(raw_pypl)))}

\* C19: the three fetches complete in any order; as soon as one returns an
\* error the run has ended with that error, whatever the other two are
\* doing, and nothing runs afterwards: no reconciliation, no file written, no
\* statistics, no ranking computed or printed.
C19_FirstFetchErrorEndsRun ==
    /\ [](FetchFailed =>
            /\ pc = "failed"
            /\ \E s \in Sources :
                   /\ fetch[s] = "err"
                   /\ error = Some(s)
                   /\ \A t \in Sources \ {s} : fetch[t] # "err"
            /\ PyplAsFetched
            /\ pypl_before = <<>>
            /\ files = {}
            /\ stats = NoStats
            /\ languages = <<>>
            /\ outcome = NoOutcome
            /\ ~printed)
    /\ [][~FetchFailed]_vars

\* PYPL has failed while TIOBE is still pending and the benchmark download
\* has succeeded.
C19_Witness ==
    /\ pc = "failed"
    /\ fetch = [s \in Sources |->
                   IF s = "pypl" THEN "err" ELSE IF s = "tiobe" THEN "pending" ELSE "ok"]

(***************************************************************************)
(* Properties of the benchmark statistics (SpecBench).                     *)
(***************************************************************************)
Loaded == pc = "stats"

\* The column indices of the header of a table that has the four columns.
Idx == Unwrap(header_indices(header))

\* The records the loop keeps, by their position in the table.
KeptRows == {i \in 1..Len(rows) : IsSome(accepted(rows[i], Idx))}

KeyOf(i) == Unwrap(accepted(rows[i], Idx)).key
TimeOf(i) == Unwrap(accepted(rows[i], Idx)).elapsed

\* The (language, task) pairs with a kept record, and the best time of each.
Pairs == {KeyOf(i) : i \in KeptRows}

BestTime(key) ==
    LET times == {TimeOf(i) : i \in {j \in KeptRows : KeyOf(j) = key}}
    IN  CHOOSE t \in times : \A u \in times : RLe(t, u)

\* The pairs of a canonical language.
PairsOf(lang) == {k \in Pairs : canonical_benchmark_lang(k[1]) = Some(lang)}

\* The languages the table measures.
Measured == {l \in {Unwrap(canonical_benchmark_lang(k[1])) :
                       k \in {q \in Pairs : IsSome(canonical_benchmark_lang(q[1]))}} :
                l # <<>>}

\* v is the n-th smallest of the best times of the pairs ks.
IsNth(v, n, ks) ==
    /\ \E k \in ks : BestTime(k) = v
    /\ Cardinality({k \in ks : RLt(BestTime(k), v)}) < n
    /\ n <= Cardinality({k \in ks : RLe(BestTime(k), v)})

\* m is the median of the best times of the pairs ks.
IsMedian(m, ks) ==
    LET n == Cardinality(ks)
    IN  IF n % 2 = 1 THEN IsNth(m, n \div 2 + 1, ks)
        ELSE \E a \in {BestTime(k) : k \in ks}, b \in {BestTime(k) : k \in ks} :
                 /\ IsNth(a, n \div 2, ks)
                 /\ IsNth(b, n \div 2 + 1, ks)
                 /\ RAdd(m, m) = RAdd(a, b)

\* The best time any language has on a task.
TaskBest(task) ==
    LET times == {BestTime(k) : k \in {q \in Pairs : q[2] = task}}
    IN  CHOOSE t \in times : \A u \in times : RLe(t, u)

RECURSIVE RatioProduct(_)
RatioProduct(ks) ==
    IF ks = {} THEN R(1)
    ELSE LET k == CHOOSE q \in ks : TRUE
         IN  RMul(RDiv(TaskBest(k[2]), BestTime(k)), RatioProduct(ks \ {k}))

RECURSIVE RPow(_, _)
RPow(x, n) == IF n = 0 THEN R(1) ELSE RMul(x, RPow(x, n - 1))

\* C16: the value of a language is the geometric mean, over its tasks, of the
\* task's best time divided by the language's best time (the n-th power of
\* the value is the product of the n ratios); with one task, Go 1.0, Rust 1.0
\* and Python 4.0 get 1, 1 and 1/4.
C16_ScoreIsGeometricMeanOfRatios ==
    Loaded =>
        \A l \in Measured :
            /\ l \in DOMAIN stats.map
            /\ RPow(stats.map[l], Cardinality(PairsOf(l))) = RatioProduct(PairsOf(l))

\* What compute_benchmark_stats_sync returns instead: for every language the
\* median, over its tasks, of the language's best elapsed time (the midpoint
\* of the two middle times for an even number of tasks); C and C++ take the
\* value of C/C++.
StatsAreMedianElapsed ==
    Loaded =>
        /\ stats.ok
        /\ DOMAIN stats.map =
               Measured \cup (IF S_CCpp \in Measured THEN {S_C, S_Cpp} ELSE {})
        /\ \A l \in Measured :
               (l \in {S_C, S_Cpp} /\ S_CCpp \in Measured)
                   \/ IsMedian(stats.map[l], PairsOf(l))
        /\ S_CCpp \in Measured =>
               /\ stats.map[S_C] = stats.map[S_CCpp]
               /\ stats.map[S_Cpp] = stats.map[S_CCpp]

\* The tasks with a kept record whose label canonicalizes to lang.
TasksOf(lang) ==
    {KeyOf(i)[2] : i \in {j \in KeptRows : canonical_benchmark_lang(KeyOf(j)[1]) = Some(lang)}}

\* The minimum elapsed time of the kept records of a canonical language on a
\* task.
CanonBest(lang, task) ==
    LET times == {TimeOf(i) : i \in {j \in KeptRows :
                     /\ canonical_benchmark_lang(KeyOf(j)[1]) = Some(lang)
                     /\ KeyOf(j)[2] = task}}
    IN  CHOOSE t \in times : \A u \in times : RLe(t, u)

\* v is the n-th smallest of the per-task minima of lang.
CanonIsNth(v, n, lang) ==
    /\ \E t \in TasksOf(lang) : CanonBest(lang, t) = v
    /\ Cardinality({t \in TasksOf(lang) : RLt(CanonBest(lang, t), v)}) < n
    /\ n <= Cardinality({t \in TasksOf(lang) : RLe(CanonBest(lang, t), v)})

\* m is the value of lang when each task counts once, with its minimum.
CanonIsMedian(m, lang) ==
    LET n    == Cardinality(TasksOf(lang))
        mins == {CanonBest(lang, t) : t \in TasksOf(lang)}
    IN  IF n % 2 = 1 THEN CanonIsNth(m, n \div 2 + 1, lang)
        ELSE \E a \in mins, b \in mins :
                 /\ CanonIsNth(a, n \div 2, lang)
                 /\ CanonIsNth(b, n \div 2 + 1, lang)
                 /\ RAdd(m, m) = RAdd(a, b)

\* C26: a canonical language has one observation per task, the minimum
\* elapsed time over all kept records whose label canonicalizes to it; its
\* value is computed from these observations alone, so gcc and gpp (both
\* C/C++) timed on one task count once, with their minimum.
C26_OneObservationPerLanguageAndTask ==
    Loaded =>
        \A l \in Measured \ {S_C, S_Cpp} :
            /\ l \in DOMAIN stats.map
            /\ CanonIsMedian(stats.map[l], l)

\* C27: the value of C/C++ goes to C and to C++ only where the language has
\* no value from records of its own; a value C or C++ has from its own
\* records stays, and so does every other entry.
C27_CopyOnlyWhereAbsent ==
    Loaded =>
        /\ DOMAIN stats.map =
               Measured \cup (IF S_CCpp \in Measured THEN {S_C, S_Cpp} ELSE {})
        /\ \A l \in Measured : IsMedian(stats.map[l], PairsOf(l))
        /\ \A l \in {S_C, S_Cpp} :
               (S_CCpp \in Measured /\ l \notin Measured)
                   => stats.map[l] = stats.map[S_CCpp]

\* A record with a flaw in its status or its elapsed time.
Flawed(record) ==
    \/ field(record, Idx.status) \in BadStatus
    \/ field(record, Idx.elapsed) \in BadElapsed

\* The canonical language of a record.
LangOf(record) == canonical_benchmark_lang(str_to_lowercase(field(record, Idx.lang)))

Sound(record) == ~Flawed(record)

\* C17: with the four columns in the header, records with a negative or
\* unparseable status, or an empty, unparseable, non-finite or non-positive
\* elapsed time, never make compute_benchmark_stats_sync fail and leave its
\* map what it is without them; a language with only such records is absent.
C17_FlawedRowsIgnored ==
    (pc \in {"stats", "failed"} /\ header \in GoodHeaders) =>
        /\ stats.ok
        /\ stats \in benchmark_stats(header, SelectSeq(rows, Sound))
        /\ \A i \in 1..Len(rows) :
               (/\ IsSome(LangOf(rows[i]))
                /\ \A j \in 1..Len(rows) :
                       LangOf(rows[j]) = LangOf(rows[i]) => Flawed(rows[j]))
               => Unwrap(LangOf(rows[i])) \notin DOMAIN stats.map

\* Flawed records stand among sound ones, and Python has only flawed ones.
C17_Witness ==
    /\ Loaded
    /\ \E i \in 1..Len(rows) : Flawed(rows[i]) /\ LangOf(rows[i]) = Some(S_Python)
    /\ \E i \in 1..Len(rows) : ~Flawed(rows[i])
    /\ S_Go \in DOMAIN stats.map
    /\ S_Python \notin DOMAIN stats.map

(***************************************************************************)
(* sources.rs / main.rs: send_with_retry. A request ends in a response     *)
(* with a status or in a transport error; an error is the chain of the     *)
(* texts of its causes. `sent` logs every request with how it ended.       *)
(***************************************************************************)
MAX_RETRIES == 3

\* The statuses a response arrives with.
Statuses == {200, 304, 404, 500}

\* StatusCode::is_success: 2xx.
is_success(status) == status >= 200 /\ status < 300

\* Response::error_for_status: an error for a 4xx or 5xx status, the
\* response itself otherwise.
error_for_status(status) ==
    IF status >= 400 /\ status < 600
    THEN [ok |-> FALSE,
          error |-> << <<IF status < 500 THEN "HTTP status client error"
                         ELSE "HTTP status server error", status>> >>]
    ELSE [ok |-> TRUE, response |-> [status |-> status]]

\* The errors client.get(url).send() ends with.
TransportErrors ==
    { <<"error sending request", "operation timed out">>,
      <<"", "connection refused">> }

\* What one request can end in, after error_for_status.
Attempts ==
    {error_for_status(st) : st \in Statuses} \cup
    {[ok |-> FALSE, error |-> e] : e \in TransportErrors}

\* Lines 90-109: the non-empty texts of the chain, each but the head of the
\* chain marked "caused by"; the Debug form of an error without texts.
describe_error(err) ==
    LET kept   == {i \in 1..Len(err) : err[i] # ""}
        nth(n) == CHOOSE i \in kept : Cardinality({j \in kept : j < i}) = n - 1
        pieces == [n \in 1..Cardinality(kept) |->
                      IF nth(n) = 1 THEN <<err[nth(n)]>>
                      ELSE <<"caused by", err[nth(n)]>>]
    IN  IF pieces = <<>> THEN <<"debug", err>> ELSE pieces

\* Lines 73-78: the error of send_with_retry.
retry_error(last) ==
    [ok       |-> FALSE,
     attempts |-> MAX_RETRIES,
     detail   |-> IF IsSome(last) THEN describe_error(Unwrap(last))
                  ELSE <<"unknown error">>]

MAX_BACKOFF_EXPONENT == 10

\* calculate_backoff with the exponent one too small: 1 s, 2 s, ...
calculate_backoff_from_one(a) ==
    LET exponent == Min2(a - 1, MAX_BACKOFF_EXPONENT)
    IN  2 ^ exponent

\* Lines 81-88: the seconds to sleep after attempt `a`. u32::try_from fails
\* only above u32::MAX, where the exponent is the cap as well, and
\* 2^exponent with exponent <= 10 never saturates.
calculate_backoff(a) ==
    LET exponent == Min2(a, MAX_BACKOFF_EXPONENT)
    IN  2 ^ exponent

InitRetry ==
    /\ pc = "send"
    /\ CoreIdle
    /\ header = <<>>
    /\ rows = <<>>
    /\ stats = NoStats
    /\ fetch = <<>>
    /\ save = {}
    /\ files = {}
    /\ printed = FALSE
    /\ error = None
    /\ attempt = 1
    /\ last_err = None
    /\ sent = <<>>
    /\ reply = None
    /\ AuxIdle

\* Lines 60-62: the request of this attempt ends in a response that
\* error_for_status lets through, which send_with_retry returns.
SendOk ==
    /\ pc = "send"
    /\ \E a \in Attempts :
           /\ a.ok
           /\ sent' = Append(sent, a)
           /\ reply' = Some(a)
    /\ pc' = "returned"
    /\ UNCHANGED core
    /\ UNCHANGED <<header, rows, stats, fetch, save, files, printed, error, attempt,
                   last_err>>
    /\ UNCHANGED aux

\* A failed attempt that keeps the first error instead of the last.
SendFails_first ==
    /\ pc = "send"
    /\ \E a \in Attempts :
           /\ ~a.ok
           /\ sent' = Append(sent, a)
           /\ last_err' = IF IsSome(last_err) THEN last_err ELSE Some(a.error)
    /\ pc' = IF attempt < MAX_RETRIES THEN "sleep" ELSE "exhausted"
    /\ UNCHANGED core
    /\ UNCHANGED <<header, rows, stats, fetch, save, files, printed, error, attempt,
                   reply>>
    /\ UNCHANGED aux

\* Lines 60-68: the request of this attempt ends in a transport error or in
\* a response that error_for_status turns into an error; the error is kept
\* and the loop sleeps unless this was the last attempt.
SendFails ==
    /\ pc = "send"
    /\ \E a \in Attempts :
           /\ ~a.ok
           /\ sent' = Append(sent, a)
           /\ last_err' = Some(a.error)
    /\ pc' = IF attempt < MAX_RETRIES THEN "sleep" ELSE "exhausted"
    /\ UNCHANGED core
    /\ UNCHANGED <<header, rows, stats, fetch, save, files, printed, error, attempt,
                   reply>>
    /\ UNCHANGED aux

\* Lines 59, 68-70: sleep(calculate_backoff(attempt)) is over and the loop
\* takes its next attempt.
Backoff ==
    /\ pc = "sleep"
    /\ waits' = Append(waits, [after |-> attempt, seconds |-> calculate_backoff(attempt)])
    /\ attempt' = attempt + 1
    /\ pc' = "send"
    /\ UNCHANGED core
    /\ UNCHANGED <<header, rows, stats, fetch, save, files, printed, error, last_err,
                   sent, reply>>
    /\ UNCHANGED <<label, canon_name, bench_name, results, scores>>

\* Lines 73-78: the loop is over without a response; the error is returned.
GiveUp ==
    /\ pc = "exhausted"
    /\ reply' = Some(retry_error(last_err))
    /\ pc' = "returned"
    /\ UNCHANGED core
    /\ UNCHANGED <<header, rows, stats, fetch, save, files, printed, error, attempt,
                   last_err, sent>>
    /\ UNCHANGED aux

NextRetry == SendOk \/ SendFails \/ Backoff \/ GiveUp

\* Every await of send_with_retry completes: the client has a timeout and a
\* sleep is finite.
SpecRetry ==
    /\ InitRetry
    /\ [][NextRetry]_vars
    /\ WF_vars(SendOk \/ SendFails)
    /\ WF_vars(Backoff)
    /\ WF_vars(GiveUp)

(***************************************************************************)
(* Properties of send_with_retry (SpecRetry).                              *)
(***************************************************************************)
Returned == pc = "returned"

\* The attempts that ended in a response with a 2xx status.
Successes == {i \in 1..Len(sent) : sent[i].ok /\ is_success(sent[i].response.status)}

\* The attempts that ended in a response error_for_status lets through.
Passed == {i \in 1..Len(sent) : sent[i].ok}

\* C20: send_with_retry sends at most MAX_RETRIES requests; it returns the
\* first response with a success (2xx) status and sends nothing after it,
\* and it returns an error with the description of the last failure exactly
\* when all the attempts ended in a transport error or a status that is not
\* a success.
C20_FirstSuccessOrLastError ==
    /\ Len(sent) <= MAX_RETRIES
    /\ \A i \in Successes : i = Len(sent)
    /\ Returned =>
           IF Successes # {}
           THEN reply = Some(sent[Len(sent)])
           ELSE /\ Len(sent) = MAX_RETRIES
                /\ ~Unwrap(reply).ok
                /\ Unwrap(reply).detail = describe_error(sent[MAX_RETRIES].error)

\* C20, amended: send_with_retry always returns, after MAX_RETRIES requests
\* at most; it returns the first response whose status is not a client or
\* server error (4xx, 5xx) and sends nothing after it, and it returns an
\* error with the description of the last failure exactly when all
\* MAX_RETRIES attempts ended in a transport error or a 4xx or 5xx status.
C20_FirstPassedOrLastError ==
    /\ [](/\ Len(sent) <= MAX_RETRIES
          /\ \A i \in Passed : i = Len(sent)
          /\ Returned =>
                 IF Passed # {}
                 THEN reply = Some(sent[Len(sent)])
                 ELSE /\ Len(sent) = MAX_RETRIES
                      /\ reply = Some([ok       |-> FALSE,
                                       attempts |-> MAX_RETRIES,
                                       detail   |-> describe_error(sent[MAX_RETRIES].error)]))
    /\ <>Returned

\* Three attempts have failed, the last two in different ways, and the
\* error is returned.
C20_Witness ==
    /\ Returned
    /\ Len(sent) = MAX_RETRIES
    /\ Passed = {}
    /\ sent[2].error \in TransportErrors
    /\ sent[3].error \notin TransportErrors
    /\ ~Unwrap(reply).ok

\* C30: the k-th sleep of send_with_retry follows the failed attempt k, with
\* k < MAX_RETRIES, and lasts 2^k seconds (2 s, then 4 s); every failed
\* attempt but the last is
\* followed by its sleep before the next request, and no sleep follows a
\* response that is returned or the last failed attempt.
C30_BackoffBetweenFailedAttempts ==
    /\ \A k \in 1..Len(waits) :
           /\ waits[k] = [after |-> k, seconds |-> 2 ^ k]
           /\ k < MAX_RETRIES
           /\ k <= Len(sent)
           /\ ~sent[k].ok
    /\ pc = "send" => Len(waits) = Len(sent)
    /\ pc \in {"sleep", "exhausted", "returned"} => Len(waits) = Len(sent) - 1

\* Three failed attempts: sleeps of 2 s and 4 s, none after the third.
C30_Witness ==
    /\ pc = "returned"
    /\ Len(sent) = MAX_RETRIES
    /\ ~Unwrap(reply).ok
    /\ waits = <<[after |-> 1, seconds |-> 2], [after |-> 2, seconds |-> 4]>>

(***************************************************************************)
(* SpecCanon: one raw language label as the two canonicalizers of the      *)
(* program see it. aggregate_entries (sources.rs 115) and                  *)
(* map_framework_languages (techempower.rs 200) hand the label to          *)
(* canonicalize_language; compute_benchmark_stats_sync trims and           *)
(* lower-cases the lang field and hands it to canonical_benchmark_lang.    *)
(***************************************************************************)
\* benchmarks.rs 68-72, 77, 89-93: the name a record's lang field is filed
\* under, None for a record or a name that is dropped.
benchmark_lang_of(lang_field) ==
    LET lang_raw == trim(lang_field)
    IN  IF lang_raw = <<>> THEN None
        ELSE LET canonical == canonical_benchmark_lang(str_to_lowercase(lang_raw))
             IN  IF IsSome(canonical) /\ Unwrap(canonical) = <<>> THEN None
                 ELSE canonical

MaxLabel == 3

\* The labels: every string of up to MaxLabel characters over a small
\* alphabet, and labels of the alias tables.
CanonLabels ==
    SeqsUpTo({"c", "g", "o", "+", "C", " "}, MaxLabel) \cup
    {<<"f", "p", "a", "s", "c", "a", "l">>, <<"g", "o", "l", "a", "n", "g">>,
     F_gpp, F_rust, F_python, F_vw, <<"v", " ", "w">>,
     <<"P", "y", "t", "h", "o", "n">>, <<"R", "u", "s", "t">>}

InitCanon ==
    /\ pc = "label"
    /\ CoreIdle
    /\ ExtIdle
    /\ waits = <<>>
    /\ label \in CanonLabels
    /\ canon_name = None
    /\ bench_name = None
    /\ results = <<>>
    /\ scores = <<>>

\* The label goes through both canonicalizers.
Canonicalize ==
    /\ pc = "label"
    /\ canon_name' = canonicalize_language(label)
    /\ bench_name' = benchmark_lang_of(label)
    /\ pc' = "named"
    /\ UNCHANGED <<core, ext, waits, label, results, scores>>

NextCanon == Canonicalize

SpecCanon == InitCanon /\ [][NextCanon]_vars

\* C28: every raw label gets the same canonical name from the benchmark
\* source (canonical_benchmark_lang with benchmark_aliases) and from
\* canonicalize_language, and both drop the same labels.
C28_SameNameInEverySource ==
    pc = "named" => bench_name = canon_name

(***************************************************************************)
(* sources/techempower.rs: compute_language_scores. raw_data maps a test   *)
(* name to the frameworks with their runs; a run is a JSON object;         *)
(* test_metadata is the list of {framework, language} records.             *)
(***************************************************************************)
TEST_WEIGHTS == <<R(1), Rat(3, 4), Rat(3, 4), Rat(3, 4), Rat(3, 2), Rat(5, 4)>>
TEST_NAMES == <<"json", "plaintext", "db", "query", "fortune", "update">>

\* Lines 208-218: the 0-based index of a test name.
test_index(name) ==
    IF \E i \in 1..Len(TEST_NAMES) : TEST_NAMES[i] = name
    THEN Some((CHOOSE i \in 1..Len(TEST_NAMES) : TEST_NAMES[i] = name) - 1)
    ELSE None

\* Lines 220-229: requests per second of a run, times in milliseconds.
calculate_rps_value(run) ==
    IF ~({"totalRequests", "startTime", "endTime"} \subseteq DOMAIN run) THEN None
    ELSE LET total       == run.totalRequests
             duration_ms == run.endTime - run.startTime
         IN  IF total <= 0 \/ duration_ms <= 0 THEN None
             ELSE Some(Rat(total * 1000, duration_ms))

\* f64::max.
f64_max(a, b) == IF RLt(a, b) THEN b ELSE a

\* Lines 140-143: runs.iter().filter_map(calculate_rps_value).fold(0.0, f64::max).
max_rps_of(runs) ==
    LET f[i \in 0..Len(runs)] ==
            IF i = 0 THEN R(0)
            ELSE LET v == calculate_rps_value(runs[i])
                 IN  IF IsSome(v) THEN f64_max(f[i - 1], Unwrap(v)) ELSE f[i - 1]
    IN  f[Len(runs)]

\* Lines 129-154: per_framework when the loop over raw_data is over.
per_framework(raw_data) ==
    LET positive(t, fw) ==
            /\ t \in DOMAIN raw_data
            /\ IsSome(test_index(t))
            /\ fw \in DOMAIN raw_data[t]
            /\ RLt(R(0), max_rps_of(raw_data[t][fw]))
        seen == {fw \in UNION {DOMAIN raw_data[t] : t \in DOMAIN raw_data} :
                    \E t \in DOMAIN raw_data : positive(t, fw)}
    IN  [fw \in seen |->
            [rps     |-> [idx \in 0..5 |->
                             IF positive(TEST_NAMES[idx + 1], fw)
                             THEN max_rps_of(raw_data[TEST_NAMES[idx + 1]][fw])
                             ELSE R(0)],
             present |-> [idx \in 0..5 |-> positive(TEST_NAMES[idx + 1], fw)]]]

\* Lines 127, 150-152: max_rps_by_test when the loop over raw_data is over.
max_rps_by_test(pf) ==
    [idx \in 0..5 |->
        LET all == {pf[fw].rps[idx] : fw \in DOMAIN pf} \cup {R(0)}
        IN  CHOOSE m \in all : \A x \in all : RLe(x, m)]

\* Lines 170-177: the composite of one framework.
composite_of(fw_scores, maxs) ==
    LET sum[i \in 0..6] ==
            IF i = 0 THEN R(0)
            ELSE IF RLe(maxs[i - 1], R(0)) THEN sum[i - 1]
            ELSE RAdd(sum[i - 1],
                      RMul(RDiv(fw_scores.rps[i - 1], maxs[i - 1]), TEST_WEIGHTS[i]))
    IN  sum[6]

\* Lines 197-206: the first canonical language the metadata gives a framework.
map_framework_languages(metadata) ==
    LET named == {i \in 1..Len(metadata) : IsSome(canonicalize_language(metadata[i].language))}
        first(fw) == CHOOSE i \in named :
                         /\ metadata[i].framework = fw
                         /\ \A j \in named : metadata[j].framework = fw => i <= j
    IN  [fw \in {metadata[i].framework : i \in named} |->
            Unwrap(canonicalize_language(metadata[first(fw)].language))]

\* compute_language_scores that also scores a framework that lacks a test.
compute_language_scores_partial(res) ==
    LET framework_languages == map_framework_languages(res.test_metadata)
        pf     == per_framework(res.raw_data)
        maxs   == max_rps_by_test(pf)
        scored == {fw \in DOMAIN pf :
                      /\ RLt(R(0), composite_of(pf[fw], maxs))
                      /\ fw \in DOMAIN framework_languages}
        langs  == {framework_languages[fw] : fw \in scored}
    IN  IF \E idx \in 0..5 : RLe(maxs[idx], R(0)) THEN [ok |-> FALSE, map |-> <<>>]
        ELSE IF langs = {} THEN [ok |-> FALSE, map |-> <<>>]
        ELSE [ok  |-> TRUE,
              map |-> [l \in langs |->
                          LET cs == {composite_of(pf[fw], maxs) :
                                        fw \in {g \in scored : framework_languages[g] = l}}
                          IN  CHOOSE m \in cs : \A x \in cs : RLe(x, m)]]

\* Lines 123-195.
compute_language_scores(res) ==
    LET framework_languages == map_framework_languages(res.test_metadata)
        pf     == per_framework(res.raw_data)
        maxs   == max_rps_by_test(pf)
        scored == {fw \in DOMAIN pf :
                      /\ \A idx \in 0..5 : pf[fw].present[idx]
                      /\ RLt(R(0), composite_of(pf[fw], maxs))
                      /\ fw \in DOMAIN framework_languages}
        langs  == {framework_languages[fw] : fw \in scored}
    IN  IF \E idx \in 0..5 : RLe(maxs[idx], R(0)) THEN [ok |-> FALSE, map |-> <<>>]
        ELSE IF langs = {} THEN [ok |-> FALSE, map |-> <<>>]
        ELSE [ok  |-> TRUE,
              map |-> [l \in langs |->
                          LET cs == {composite_of(pf[fw], maxs) :
                                        fw \in {g \in scored : framework_languages[g] = l}}
                          IN  CHOOSE m \in cs : \A x \in cs : RLe(x, m)]]

(***************************************************************************)
(* SpecTfb: compute_language_scores on the results of three frameworks.    *)
(* A framework has a base rate in every test; it may lack json or update,  *)
(* have only an unusable run for fortune, or have several runs for db.     *)
(* The metadata may name a framework twice, with a dropped label, or not   *)
(* at all.                                                                 *)
(***************************************************************************)
MaxBase == 2

TfbFrameworks == {"fa", "fb", "fc"}
TfbVariants == {"full", "no_json", "no_update", "idle_fortune", "fast_db"}
TfbTests == Elems(TEST_NAMES) \cup {"cached-query"}

TfbRun(total) == [totalRequests |-> total, startTime |-> 0, endTime |-> 1000]

runs_for(base, variant, t) ==
    IF variant = "idle_fortune" /\ t = "fortune" THEN <<TfbRun(0)>>
    ELSE IF variant = "fast_db" /\ t = "db"
         THEN <<TfbRun(base), TfbRun(3 * base), [totalRequests |-> 9 * base]>>
         ELSE <<TfbRun(base)>>

has_runs(variant, t) ==
    /\ ~(variant = "no_json" /\ t = "json")
    /\ ~(variant = "no_update" /\ t = "update")

raw_data_of(profile) ==
    [t \in TfbTests |->
        [fw \in {f \in TfbFrameworks : has_runs(profile[f].variant, t)} |->
            runs_for(profile[fw].base, profile[fw].variant, t)]]

TfbMeta(fw, lang) == [framework |-> fw, language |-> lang]

TfbMetadata ==
    {ma \o mb \o mc :
        ma \in { <<TfbMeta("fa", F_go)>>, <<TfbMeta("fa", F_go), TfbMeta("fa", F_rust)>> },
        mb \in { <<>>, <<TfbMeta("fb", <<"g", "o", "l", "a", "n", "g">>)>>,
                 <<TfbMeta("fb", F_rust)>> },
        mc \in { <<>>, <<TfbMeta("fc", F_vw)>>,
                 <<TfbMeta("fc", F_vw), TfbMeta("fc", F_rust)>> }}

InitTfb ==
    /\ pc = "parsed"
    /\ CoreIdle
    /\ ExtIdle
    /\ waits = <<>>
    /\ label = <<>>
    /\ canon_name = None
    /\ bench_name = None
    /\ \E profile \in [TfbFrameworks -> [base : 1..MaxBase, variant : TfbVariants]],
          metadata \in TfbMetadata :
           results = [raw_data |-> raw_data_of(profile), test_metadata |-> metadata]
    /\ scores = <<>>

\* techempower.rs 44: let scores = compute_language_scores(&results)?.
ComputeLanguageScores ==
    /\ pc = "parsed"
    /\ scores' = compute_language_scores(results)
    /\ pc' = IF scores'.ok THEN "scored" ELSE "failed"
    /\ UNCHANGED <<core, ext, waits, label, canon_name, bench_name, results>>

NextTfb == ComputeLanguageScores

SpecTfb == InitTfb /\ [][NextTfb]_vars

(***************************************************************************)
(* Claims on compute_language_scores.                                      *)
(***************************************************************************)
Categories == {"json", "plaintext", "db", "query", "fortune", "update"}

Weight(c) ==
    CASE c = "json" -> R(1)
      [] c = "plaintext" -> Rat(3, 4)
      [] c = "db" -> Rat(3, 4)
      [] c = "query" -> Rat(3, 4)
      [] c = "fortune" -> Rat(3, 2)
      [] c = "update" -> Rat(5, 4)

\* The greatest of a set of numbers, 0 for the empty set.
Greatest(S) == IF S = {} THEN R(0) ELSE CHOOSE m \in S : \A x \in S : RLe(x, m)

\* The frameworks of the results.
Measured_fw == UNION {DOMAIN results.raw_data[t] : t \in DOMAIN results.raw_data}

\* The peak requests per second of a framework in a category, 0 without a
\* usable run.
PeakOf(fw, c) ==
    IF c \notin DOMAIN results.raw_data \/ fw \notin DOMAIN results.raw_data[c] THEN R(0)
    ELSE LET runs == results.raw_data[c][fw]
             usable == {i \in 1..Len(runs) :
                           /\ {"totalRequests", "startTime", "endTime"} \subseteq DOMAIN runs[i]
                           /\ runs[i].totalRequests > 0
                           /\ runs[i].endTime > runs[i].startTime}
         IN  Greatest({Rat(runs[i].totalRequests * 1000, runs[i].endTime - runs[i].startTime) :
                          i \in usable})

CategoryMax(c) == Greatest({PeakOf(fw, c) : fw \in Measured_fw})

Complete(fw) == \A c \in Categories : RLt(R(0), PeakOf(fw, c))

\* The language of a framework: that of its first metadata record with a
\* language that is not dropped.
LanguageOf(fw) ==
    LET own == {i \in 1..Len(results.test_metadata) :
                   /\ results.test_metadata[i].framework = fw
                   /\ IsSome(canonicalize_language(results.test_metadata[i].language))}
    IN  IF own = {} THEN None
        ELSE canonicalize_language(
                 results.test_metadata[CHOOSE i \in own : \A j \in own : i <= j].language)

RECURSIVE WeightedSum(_, _)
WeightedSum(fw, cs) ==
    IF cs = {} THEN R(0)
    ELSE LET c == CHOOSE x \in cs : TRUE
         IN  RAdd(RMul(Weight(c), RDiv(PeakOf(fw, c), CategoryMax(c))),
                  WeightedSum(fw, cs \ {c}))

Composite(fw) == WeightedSum(fw, Categories)

\* The complete frameworks of a language.
FrameworksOf(l) == {fw \in Measured_fw : Complete(fw) /\ LanguageOf(fw) = Some(l)}

\* C29: compute_language_scores fails when a category has no data at all;
\* when it succeeds, the languages of its map are those with a framework
\* that has a positive peak in all six categories, and the score of a
\* language is the maximum over these frameworks of the sum over the
\* categories of weight * peak / category maximum. Incomplete frameworks and
\* frameworks without a language add to no score.
C29_MaxWeightedCompositePerLanguage ==
    pc \in {"scored", "failed"} =>
        /\ (\E c \in Categories : CategoryMax(c) = R(0)) => ~scores.ok
        /\ scores.ok =>
               \A l \in {S_Go, S_Rust} \cup DOMAIN scores.map :
                   /\ l \in DOMAIN scores.map <=> FrameworksOf(l) # {}
                   /\ FrameworksOf(l) # {} =>
                          scores.map[l] = Greatest({Composite(fw) : fw \in FrameworksOf(l)})

\* Go has two complete frameworks with different composites and takes the
\* greater one; a third framework with a language lacks a category and its
\* language has no score.
C29_Witness ==
    /\ pc = "scored"
    /\ \E f, g, h \in Measured_fw :
           /\ Complete(f) /\ Complete(g)
           /\ LanguageOf(f) = Some(S_Go) /\ LanguageOf(g) = Some(S_Go)
           /\ RLt(Composite(f), Composite(g))
           /\ scores.map[S_Go] = Composite(g)
           /\ ~Complete(h)
           /\ LanguageOf(h) = Some(S_Rust)
           /\ S_Rust \notin DOMAIN scores.map

====
